---- MODULE Spec2Model ----
(***************************************************************************)
(* The off-chain order book of robet_ai: user balances, limit-order        *)
(* admission with fund / token / collateral locking, the matching engine,  *)
(* trade execution with short-sale minting, and market settlement.         *)
(*                                                                         *)
(* Money (availableUSD, prices, payments) is counted in cents, PriceScale  *)
(* cents to the dollar, so that price * quantity is an integer.  Token     *)
(* counts and the lockedCollateral fields are whole numbers, as in the     *)
(* code (one dollar of collateral per shorted share); Usd converts them.   *)
(* Orders and trades are kept in creation order: the index of an order is  *)
(* its orderId and orders its createdAt.                                   *)
(***************************************************************************)
EXTENDS Integers, Sequences, FiniteSets, TLC

(***************************************************************************)
(* Bounds and input sets                                                   *)
(***************************************************************************)
Users == {"a", "b"}
MarketIds == {"m1", "m2"}
Sides == {"BUY", "SELL"}
TokenTypes == {"YES", "NO"}
Outcomes == {"YES", "NO"}

PriceScale == 100
Prices == {50, 100}
BadPrices == {0 - 50, 150}
MaxQty == 2
MaxOrders == 3
MaxRespOrders == 2
MaxTransfers == 1
InitialUSD == 200
TransferAmounts == {0, 100}

Usd(dollars) == dollars * PriceScale

Min(x, y) == IF x <= y THEN x ELSE y

RECURSIVE SumOver(_, _)
SumOver(S, f) ==
  IF S = {} THEN 0
  ELSE LET x == CHOOSE y \in S : TRUE IN f[x] + SumOver(S \ {x}, f)

(***************************************************************************)
(* Documents                                                               *)
(***************************************************************************)
NoUser == [missing |-> "user"]
NoMarketBalance == [missing |-> "marketBalance"]
NoOrder == [missing |-> "order"]

newMarketBalance ==
  [yesTokens |-> 0, noTokens |-> 0,
   lockedCollateralYes |-> 0, lockedCollateralNo |-> 0,
   lockedYesTokens |-> 0, lockedNoTokens |-> 0]

NewUserBalance(amount) ==
  [availableUSD |-> amount, markets |-> [m \in MarketIds |-> NoMarketBalance]]

NewMarket == [settled |-> FALSE, outcome |-> "null"]

\* The position a reader sees: a missing per-market record reads as zeros.
Position(ub, marketId) ==
  IF ub = NoUser \/ ub.markets[marketId] = NoMarketBalance
  THEN newMarketBalance
  ELSE ub.markets[marketId]

VARIABLES
  balances,     \* UserBalance collection: userId -> document or NoUser
  marketDocs,   \* Market collection: marketId -> [settled, outcome]
  orders,       \* Order collection, in creation order
  trades,       \* Trade collection, in creation order
  minted,       \* history: tokens minted by short sales, per market and type
  cur,          \* the POST /order request being matched, or NoOrder
  transfers,    \* number of deposits and withdrawals accepted so far
  resp,         \* the last HTTP response
  procs,        \* requests in flight: handler -> its position and local documents
  versions,     \* the version key (__v) of each UserBalance document
  base,         \* history: the collections before the requests in flight began
  script        \* the scripted run being played: its orders and its outcome

concVars == <<procs, versions, base, script>>

vars == <<balances, marketDocs, orders, trades, minted, cur, transfers, resp,
          procs, versions, base, script>>

Response(op, ok, error) == [op |-> op, success |-> ok, error |-> error]

\* No request is being handled.  A run is followed up to its first rejected
\* request: a rejection is the last response recorded.
Idle == cur = NoOrder /\ resp.success

\* The collections a request works on.
Db(bals, ords, trds, mnt, mkts) ==
  [balances |-> bals, orders |-> ords, trades |-> trds, minted |-> mnt,
   marketDocs |-> mkts]

\* Two funded users, two unsettled markets, nothing else.
InitDb ==
  Db([u \in Users |-> NewUserBalance(InitialUSD)], <<>>, <<>>,
     [m \in MarketIds |-> [t \in TokenTypes |-> 0]],
     [m \in MarketIds |-> NewMarket])

Procs == {1, 2}
IdleProc == [pc |-> "idle"]

NoScript == [name |-> "none", orders |-> <<>>, outcome |-> "none"]

InitFrom(db) ==
  /\ balances = db.balances
  /\ marketDocs = db.marketDocs
  /\ orders = db.orders
  /\ trades = db.trades
  /\ minted = db.minted
  /\ cur = NoOrder
  /\ transfers = 0
  /\ resp = Response("none", TRUE, "")
  /\ procs = [p \in Procs |-> IdleProc]
  /\ versions = [u \in Users |-> 0]
  /\ base = db
  /\ script = NoScript

Init == InitFrom(InitDb)

(***************************************************************************)
(* POST /api/users/deposit and /withdraw                                   *)
(***************************************************************************)
Deposit(userId, amount) ==
  /\ Idle
  /\ amount > 0
  /\ transfers < MaxTransfers
  /\ balances' = [balances EXCEPT ![userId] =
       IF balances[userId] = NoUser
       THEN NewUserBalance(amount)
       ELSE [balances[userId] EXCEPT !.availableUSD = @ + amount]]
  /\ transfers' = transfers + 1
  /\ resp' = Response("deposit", TRUE, "")
  /\ UNCHANGED concVars
  /\ UNCHANGED <<marketDocs, orders, trades, minted, cur>>

DepositRejected(userId, amount) ==
  /\ Idle
  /\ amount <= 0
  /\ resp' = Response("deposit", FALSE, "Deposit amount must be greater than 0")
  /\ UNCHANGED concVars
  /\ UNCHANGED <<balances, marketDocs, orders, trades, minted, cur, transfers>>

WithdrawError(userId, amount) ==
  IF amount <= 0 THEN "Withdrawal amount must be greater than 0"
  ELSE IF balances[userId] = NoUser THEN "User not found"
  ELSE IF balances[userId].availableUSD < amount THEN "Insufficient funds"
  ELSE ""

Withdraw(userId, amount) ==
  /\ Idle
  /\ WithdrawError(userId, amount) = ""
  /\ transfers < MaxTransfers
  /\ balances' = [balances EXCEPT ![userId].availableUSD = @ - amount]
  /\ transfers' = transfers + 1
  /\ resp' = Response("withdraw", TRUE, "")
  /\ UNCHANGED concVars
  /\ UNCHANGED <<marketDocs, orders, trades, minted, cur>>

WithdrawRejected(userId, amount) ==
  /\ Idle
  /\ WithdrawError(userId, amount) # ""
  /\ resp' = Response("withdraw", FALSE, WithdrawError(userId, amount))
  /\ UNCHANGED concVars
  /\ UNCHANGED <<balances, marketDocs, orders, trades, minted, cur, transfers>>

(***************************************************************************)
(* POST /api/order: validation, fund locking, order creation               *)
(***************************************************************************)
OrderRequests ==
  {r \in [marketId : MarketIds, userId : Users, side : Sides,
          tokenType : TokenTypes, price : Prices \cup BadPrices,
          quantity : 0 .. MaxQty, signed : BOOLEAN] :
     \* the second market takes one kind of order: it is there to be left alone
     /\ r.marketId = "m2" =>
          (r.side = "SELL" /\ r.tokenType = "YES" /\ r.price = 50
           /\ r.quantity = 1 /\ r.signed)
     \* NO tokens are traded one at a time at one price
     /\ r.tokenType = "NO" => (r.price = 50 /\ r.quantity = 1 /\ r.signed)
     \* invalid inputs are tried one at a time
     /\ (r.price \in BadPrices \/ r.quantity = 0 \/ ~r.signed) =>
          (r.side = "BUY" /\ r.tokenType = "YES" /\ r.quantity <= 1
           /\ (r.price \in BadPrices => r.signed))}

\* The fund locking of the order route on the user's document: the result is
\* the error of the early return, or the document to be saved.
Locked(userBalance, marketId, usd, mb) ==
  [error |-> "",
   doc |-> [availableUSD |-> usd,
            markets |-> [userBalance.markets EXCEPT ![marketId] = mb]]]

NotLocked(userBalance, msg) == [error |-> msg, doc |-> userBalance]

LockBuyNoCheck(userBalance, marketId, price, quantity) ==
  Locked(userBalance, marketId, userBalance.availableUSD - price * quantity,
         Position(userBalance, marketId))

LockBuy(userBalance, marketId, price, quantity) ==
  LET requiredFunds == price * quantity
  IN IF userBalance.availableUSD < requiredFunds
     THEN NotLocked(userBalance, "Insufficient funds for BUY order")
     ELSE Locked(userBalance, marketId, userBalance.availableUSD - requiredFunds,
                 Position(userBalance, marketId))

LockSellYesForgetsOwned(userBalance, marketId, quantity) ==
  LET currentMarketBalance == Position(userBalance, marketId)
      ownedYes == currentMarketBalance.yesTokens
  IN IF quantity <= ownedYes
     THEN Locked(userBalance, marketId, userBalance.availableUSD,
                 [currentMarketBalance EXCEPT
                    !.yesTokens = @ - quantity,
                    !.lockedYesTokens = @ + quantity])
     ELSE LET shortAmount == quantity - ownedYes
              requiredCollateral == shortAmount
          IN IF userBalance.availableUSD < Usd(requiredCollateral)
             THEN NotLocked(userBalance, "Insufficient funds for short-selling YES tokens")
             ELSE Locked(userBalance, marketId,
                         userBalance.availableUSD - Usd(requiredCollateral),
                         [currentMarketBalance EXCEPT
                            !.lockedCollateralYes = @ + requiredCollateral])

LockSellYes(userBalance, marketId, quantity) ==
  LET currentMarketBalance == Position(userBalance, marketId)
      ownedYes == currentMarketBalance.yesTokens
  IN IF quantity <= ownedYes
     THEN Locked(userBalance, marketId, userBalance.availableUSD,
                 [currentMarketBalance EXCEPT
                    !.yesTokens = @ - quantity,
                    !.lockedYesTokens = @ + quantity])
     ELSE LET shortAmount == quantity - ownedYes
              requiredCollateral == shortAmount
          IN IF userBalance.availableUSD < Usd(requiredCollateral)
             THEN NotLocked(userBalance, "Insufficient funds for short-selling YES tokens")
             ELSE Locked(userBalance, marketId,
                         userBalance.availableUSD - Usd(requiredCollateral),
                         [currentMarketBalance EXCEPT
                            !.yesTokens = @ - ownedYes,
                            !.lockedYesTokens = @ + ownedYes,
                            !.lockedCollateralYes = @ + requiredCollateral])

LockSellNo(userBalance, marketId, quantity) ==
  LET currentMarketBalance == Position(userBalance, marketId)
      ownedNo == currentMarketBalance.noTokens
  IN IF quantity <= ownedNo
     THEN Locked(userBalance, marketId, userBalance.availableUSD,
                 [currentMarketBalance EXCEPT
                    !.noTokens = @ - quantity,
                    !.lockedNoTokens = @ + quantity])
     ELSE LET shortAmount == quantity - ownedNo
              requiredCollateral == shortAmount
          IN IF userBalance.availableUSD < Usd(requiredCollateral)
             THEN NotLocked(userBalance, "Insufficient funds for short-selling NO tokens")
             ELSE Locked(userBalance, marketId,
                         userBalance.availableUSD - Usd(requiredCollateral),
                         [currentMarketBalance EXCEPT
                            !.noTokens = @ - ownedNo,
                            !.lockedNoTokens = @ + ownedNo,
                            !.lockedCollateralNo = @ + requiredCollateral])

LockFunds(userBalance, marketId, side, tokenType, price, quantity) ==
  IF side = "BUY" THEN LockBuy(userBalance, marketId, price, quantity)
  ELSE IF side = "SELL" /\ tokenType = "YES"
  THEN LockSellYes(userBalance, marketId, quantity)
  ELSE IF side = "SELL" /\ tokenType = "NO"
  THEN LockSellNo(userBalance, marketId, quantity)
  ELSE Locked(userBalance, marketId, userBalance.availableUSD,
              Position(userBalance, marketId))

\* userId = userId.toLowerCase(), on the user ids of the runs: the ids of
\* the trading script are the only ones with upper-case letters.
toLowerCase(id) ==
  CASE id = "TraderA" -> "tradera"
    [] id = "TraderB" -> "traderb"
    [] id = "TraderC" -> "traderc"
    [] id = "TraderD" -> "traderd"
    [] id = "TraderE" -> "tradere"
    [] OTHER -> id

NewOrder(orderId, r) ==
  [orderId |-> orderId, marketId |-> r.marketId, userId |-> r.userId,
   side |-> r.side, tokenType |-> r.tokenType, price |-> r.price,
   quantity |-> r.quantity, filledQuantity |-> 0, status |-> "OPEN"]

\* What the route does before it calls matchOrders: the error of the early
\* return, or the saved balance and the created order.
Admission(bals, ords, r) ==
  LET Reject(msg) == [error |-> msg, balances |-> bals, orders |-> ords]
      userId == toLowerCase(r.userId)
  IN
  IF ~r.signed THEN Reject("Invalid signature.")
  ELSE IF r.price < 0 \/ r.price > PriceScale
  THEN Reject("Price must be between 0 and 1.")
  ELSE IF r.quantity <= 0 THEN Reject("Quantity must be > 0.")
  ELSE IF bals[userId] = NoUser THEN Reject("User not found.")
  ELSE LET locked == LockFunds(bals[userId], r.marketId, r.side,
                               r.tokenType, r.price, r.quantity)
       IN IF locked.error # "" THEN Reject(locked.error)
          ELSE [error |-> "",
                balances |-> [bals EXCEPT ![userId] = locked.doc],
                orders |-> Append(ords, NewOrder(Len(ords) + 1,
                                                 [r EXCEPT !.userId = userId]))]

SubmitOrder(r, maxOrders) ==
  /\ Idle
  /\ Len(orders) < maxOrders
  /\ LET adm == Admission(balances, orders, r)
     IN /\ adm.error = ""
        /\ balances' = adm.balances
        /\ orders' = adm.orders
        /\ cur' = [orderId |-> Len(adm.orders),
                   remainingQty |-> r.quantity, stillOpen |-> TRUE]
  /\ UNCHANGED concVars
  /\ UNCHANGED <<marketDocs, trades, minted, transfers, resp>>

SubmitOrderRejected(r) ==
  /\ Idle
  /\ Admission(balances, orders, r).error # ""
  /\ resp' = Response("order", FALSE, Admission(balances, orders, r).error)
  /\ UNCHANGED concVars
  /\ UNCHANGED <<balances, marketDocs, orders, trades, minted, cur, transfers>>

(***************************************************************************)
(* matchingEngine: matchOrders and executeTrade                            *)
(***************************************************************************)
\* A status filter that lets FILLED orders through.
ActiveOrFilled(o) == o.status \in {"OPEN", "PARTIAL", "FILLED"}

Active(o) == o.status \in {"OPEN", "PARTIAL"}

OpposingAnyUser(ords, incomingOrder) ==
  {i \in DOMAIN ords :
     /\ ords[i].marketId = incomingOrder.marketId
     /\ ords[i].side = (IF incomingOrder.side = "BUY" THEN "SELL" ELSE "BUY")
     /\ ords[i].tokenType = incomingOrder.tokenType
     /\ Active(ords[i])
     /\ IF incomingOrder.side = "BUY"
        THEN ords[i].price <= incomingOrder.price
        ELSE ords[i].price >= incomingOrder.price
     /\ i # incomingOrder.orderId}

OpposingAnyToken(ords, incomingOrder) ==
  {i \in DOMAIN ords :
     /\ ords[i].marketId = incomingOrder.marketId
     /\ ords[i].side = (IF incomingOrder.side = "BUY" THEN "SELL" ELSE "BUY")
     /\ Active(ords[i])
     /\ IF incomingOrder.side = "BUY"
        THEN ords[i].price <= incomingOrder.price
        ELSE ords[i].price >= incomingOrder.price
     /\ ords[i].userId # incomingOrder.userId}

OpposingStrictPrice(ords, incomingOrder) ==
  {i \in DOMAIN ords :
     /\ ords[i].marketId = incomingOrder.marketId
     /\ ords[i].side = (IF incomingOrder.side = "BUY" THEN "SELL" ELSE "BUY")
     /\ ords[i].tokenType = incomingOrder.tokenType
     /\ Active(ords[i])
     /\ IF incomingOrder.side = "BUY"
        THEN ords[i].price < incomingOrder.price
        ELSE ords[i].price > incomingOrder.price
     /\ ords[i].userId # incomingOrder.userId}

\* The filter of the findOne of matchOrders.
Opposing(ords, incomingOrder) ==
  {i \in DOMAIN ords :
     /\ ords[i].marketId = incomingOrder.marketId
     /\ ords[i].side = (IF incomingOrder.side = "BUY" THEN "SELL" ELSE "BUY")
     /\ ords[i].tokenType = incomingOrder.tokenType
     /\ Active(ords[i])
     /\ IF incomingOrder.side = "BUY"
        THEN ords[i].price <= incomingOrder.price
        ELSE ords[i].price >= incomingOrder.price
     /\ ords[i].userId # incomingOrder.userId}

BestOpposingOrderOldest(ords, incomingOrder) ==
  LET C == Opposing(ords, incomingOrder)
  IN IF C = {} THEN 0
     ELSE CHOOSE i \in C : \A j \in C : i <= j

\* Its sort: price ascending for a BUY taker, descending for a SELL taker,
\* then createdAt ascending.  0 when no order passes the filter.
BestOpposingOrder(ords, incomingOrder) ==
  LET C == Opposing(ords, incomingOrder)
      Before(i, j) ==
        \/ IF incomingOrder.side = "BUY"
           THEN ords[i].price < ords[j].price
           ELSE ords[i].price > ords[j].price
        \/ ords[i].price = ords[j].price /\ i <= j
  IN IF C = {} THEN 0
     ELSE CHOOSE i \in C : \A j \in C : Before(i, j)

\* The price improvement the buyer is refunded.
NoRefund(buyerLimitPrice, price, quantity) == 0

RefundAmount(buyerLimitPrice, price, quantity) ==
  LET priceDifference == buyerLimitPrice - price
  IN IF priceDifference > 0 THEN priceDifference * quantity ELSE 0

\* The token side of executeTrade on the two per-market records: delivery
\* from the seller's locked tokens, then the short sale of the remainder,
\* which mints the token for the buyer and the opposite one for the seller.
\* ok is FALSE on the early return for insufficient locked collateral.
Delivery(ok, sellerMarket, buyerMarket, shorted) ==
  [ok |-> ok, sellerMarket |-> sellerMarket, buyerMarket |-> buyerMarket,
   shorted |-> shorted]

UseLocked(lockedTokens, quantity) ==
  IF lockedTokens >= quantity THEN quantity
  ELSE IF lockedTokens > 0 THEN Min(quantity, lockedTokens)
  ELSE 0

DeliverTokensConsumingCollateral(sellerMarket, buyerMarket, tokenType, quantity) ==
  IF tokenType = "YES" THEN
    LET useLocked == UseLocked(sellerMarket.lockedYesTokens, quantity)
        remainingToShort == quantity - useLocked
    IN IF remainingToShort > 0 /\ sellerMarket.lockedCollateralYes < remainingToShort
       THEN Delivery(FALSE, sellerMarket, buyerMarket, 0)
       ELSE Delivery(TRUE,
              [sellerMarket EXCEPT !.lockedYesTokens = @ - useLocked,
                                   !.lockedCollateralYes = @ - remainingToShort,
                                   !.noTokens = @ + remainingToShort],
              [buyerMarket EXCEPT !.yesTokens = @ + useLocked + remainingToShort],
              remainingToShort)
  ELSE
    LET useLocked == UseLocked(sellerMarket.lockedNoTokens, quantity)
        remainingToShort == quantity - useLocked
    IN IF remainingToShort > 0 /\ sellerMarket.lockedCollateralNo < remainingToShort
       THEN Delivery(FALSE, sellerMarket, buyerMarket, 0)
       ELSE Delivery(TRUE,
              [sellerMarket EXCEPT !.lockedNoTokens = @ - useLocked,
                                   !.lockedCollateralNo = @ - remainingToShort,
                                   !.yesTokens = @ + remainingToShort],
              [buyerMarket EXCEPT !.noTokens = @ + useLocked + remainingToShort],
              remainingToShort)

DeliverTokens(sellerMarket, buyerMarket, tokenType, quantity) ==
  IF tokenType = "YES" THEN
    LET useLocked == UseLocked(sellerMarket.lockedYesTokens, quantity)
        remainingToShort == quantity - useLocked
    IN IF remainingToShort > 0 /\ sellerMarket.lockedCollateralYes < remainingToShort
       THEN Delivery(FALSE, sellerMarket, buyerMarket, 0)
       ELSE Delivery(TRUE,
              [sellerMarket EXCEPT !.lockedYesTokens = @ - useLocked,
                                   !.noTokens = @ + remainingToShort],
              [buyerMarket EXCEPT !.yesTokens = @ + useLocked + remainingToShort],
              remainingToShort)
  ELSE
    LET useLocked == UseLocked(sellerMarket.lockedNoTokens, quantity)
        remainingToShort == quantity - useLocked
    IN IF remainingToShort > 0 /\ sellerMarket.lockedCollateralNo < remainingToShort
       THEN Delivery(FALSE, sellerMarket, buyerMarket, 0)
       ELSE Delivery(TRUE,
              [sellerMarket EXCEPT !.lockedNoTokens = @ - useLocked,
                                   !.yesTokens = @ + remainingToShort],
              [buyerMarket EXCEPT !.noTokens = @ + useLocked + remainingToShort],
              remainingToShort)

\* executeTrade on the two fetched documents.  saved is FALSE on the early
\* return that leaves both documents as they were in the collection.
executeTrade(buyerBal, sellerBal, marketId, tokenType, price, quantity, buyerLimitPrice) ==
  LET totalCost == price * quantity
      refundAmount == RefundAmount(buyerLimitPrice, price, quantity)
      d == DeliverTokens(Position(sellerBal, marketId), Position(buyerBal, marketId),
                         tokenType, quantity)
  IN
  IF ~d.ok
  THEN [saved |-> FALSE, buyerBal |-> buyerBal, sellerBal |-> sellerBal,
        shorted |-> 0]
  ELSE [saved |-> TRUE,
        buyerBal |-> [availableUSD |-> buyerBal.availableUSD + refundAmount,
                      markets |-> [buyerBal.markets EXCEPT ![marketId] = d.buyerMarket]],
        sellerBal |-> [availableUSD |-> sellerBal.availableUSD + totalCost,
                       markets |-> [sellerBal.markets EXCEPT ![marketId] = d.sellerMarket]],
        shorted |-> d.shorted]

\* A status that is PARTIAL after every fill.
FillStatusPartial(o) == "PARTIAL"

FillStatus(o) == IF o.filledQuantity = o.quantity THEN "FILLED" ELSE "PARTIAL"

\* The loop condition of matchOrders, on its local variables.
LoopRuns(st) == st.stillOpen /\ st.remainingQty > 0

HasOpposing(ords, st) ==
  BestOpposingOrder(ords, ords[st.orderId]) # 0

\* One iteration of the while loop of matchOrders that finds an opposing order.
MatchStep(db, st) ==
  LET incomingOrder == db.orders[st.orderId]
      b == BestOpposingOrder(db.orders, incomingOrder)
      bestOpposingOrder == db.orders[b]
      availableQty == bestOpposingOrder.quantity - bestOpposingOrder.filledQuantity
      matchQty == Min(st.remainingQty, availableQty)
      executionPrice == bestOpposingOrder.price
      trade == [marketId |-> incomingOrder.marketId,
                buyOrderId |-> IF incomingOrder.side = "BUY"
                               THEN incomingOrder.orderId ELSE bestOpposingOrder.orderId,
                sellOrderId |-> IF incomingOrder.side = "SELL"
                                THEN incomingOrder.orderId ELSE bestOpposingOrder.orderId,
                price |-> executionPrice, quantity |-> matchQty,
                tokenType |-> incomingOrder.tokenType]
      incFilled == [incomingOrder EXCEPT !.filledQuantity = @ + matchQty]
      bestFilled == [bestOpposingOrder EXCEPT !.filledQuantity = @ + matchQty]
      buyerId == IF incomingOrder.side = "BUY"
                 THEN incomingOrder.userId ELSE bestOpposingOrder.userId
      sellerId == IF incomingOrder.side = "SELL"
                  THEN incomingOrder.userId ELSE bestOpposingOrder.userId
      buyerLimitPrice == IF incomingOrder.side = "BUY"
                         THEN incomingOrder.price ELSE bestOpposingOrder.price
      ex == executeTrade(db.balances[buyerId], db.balances[sellerId],
                         incomingOrder.marketId, incomingOrder.tokenType,
                         executionPrice, matchQty, buyerLimitPrice)
      remainingAfter == st.remainingQty - matchQty
      savedOrders ==
        [db.orders EXCEPT
           ![b] = [bestFilled EXCEPT !.status = FillStatus(bestFilled)],
           ![st.orderId] = [incFilled EXCEPT !.status = FillStatus(incFilled)]]
  IN
  IF availableQty <= 0
  THEN [db |-> [db EXCEPT !.orders[b].status = "FILLED"], st |-> st]
  ELSE IF db.balances[buyerId] = NoUser \/ db.balances[sellerId] = NoUser
  THEN [db |-> [db EXCEPT !.orders = savedOrders,
                          !.trades = Append(@, trade)],
        st |-> [st EXCEPT !.remainingQty = 0]]
  ELSE [db |-> [db EXCEPT
                  !.balances = [db.balances EXCEPT ![buyerId] = ex.buyerBal,
                                                   ![sellerId] = ex.sellerBal],
                  !.orders = [savedOrders EXCEPT ![st.orderId].status =
                                IF remainingAfter <= 0 THEN "FILLED" ELSE "PARTIAL"],
                  !.trades = Append(db.trades, trade),
                  !.minted = [db.minted EXCEPT
                                ![incomingOrder.marketId][incomingOrder.tokenType] =
                                   @ + ex.shorted]],
        st |-> [st EXCEPT !.remainingQty = remainingAfter,
                          !.stillOpen = remainingAfter > 0]]

\* What follows the loop: the status of a taker that was not fully filled.
FinalStatus(ords, st) ==
  IF st.remainingQty > 0 /\ ords[st.orderId].status # "FILLED"
  THEN [ords EXCEPT ![st.orderId].status =
          IF ords[st.orderId].filledQuantity > 0 THEN "PARTIAL" ELSE "OPEN"]
  ELSE ords

MatchIteration ==
  /\ cur # NoOrder
  /\ LoopRuns(cur)
  /\ HasOpposing(orders, cur)
  /\ LET r == MatchStep(Db(balances, orders, trades, minted, marketDocs), cur)
     IN /\ balances' = r.db.balances
        /\ orders' = r.db.orders
        /\ trades' = r.db.trades
        /\ minted' = r.db.minted
        /\ cur' = r.st
  /\ UNCHANGED concVars
  /\ UNCHANGED <<marketDocs, transfers, resp>>

MatchReturn ==
  /\ cur # NoOrder
  /\ ~(LoopRuns(cur) /\ HasOpposing(orders, cur))
  /\ orders' = FinalStatus(orders, cur)
  /\ cur' = NoOrder
  /\ resp' = Response("order", TRUE, "")
  /\ UNCHANGED concVars
  /\ UNCHANGED <<balances, marketDocs, trades, minted, transfers>>

(***************************************************************************)
(* settlementService: settleMarket, behind POST /api/market/settle         *)
(***************************************************************************)
\* Phase 1: the OPEN and PARTIAL orders of the market that have an unfilled
\* quantity; they are cancelled, and the BUY ones refunded.
ToCancel(ords, marketId) ==
  {i \in DOMAIN ords :
     /\ ords[i].marketId = marketId
     /\ Active(ords[i])
     /\ ords[i].quantity - ords[i].filledQuantity > 0}

\* A refund of the whole quantity of each cancelled BUY order.
buyRefundsWholeOrder(ords, marketId, userId) ==
  LET mine == {i \in ToCancel(ords, marketId) :
                 ords[i].side = "BUY" /\ ords[i].userId = userId}
  IN SumOver(mine, [i \in mine |-> ords[i].quantity * ords[i].price])

buyRefunds(ords, marketId, userId) ==
  LET mine == {i \in ToCancel(ords, marketId) :
                 ords[i].side = "BUY" /\ ords[i].userId = userId}
  IN SumOver(mine, [i \in mine |->
                      (ords[i].quantity - ords[i].filledQuantity) * ords[i].price])

\* A payout that returns the collateral of both sides.
PayoutReturningCollateral(m, outcome) ==
  IF outcome = "YES"
  THEN Usd(m.yesTokens + m.lockedYesTokens) + Usd(m.lockedCollateralNo + m.lockedCollateralYes)
  ELSE Usd(m.noTokens + m.lockedNoTokens) + Usd(m.lockedCollateralYes + m.lockedCollateralNo)

\* Phase 2 on one user's per-market record: what the outcome pays him.
Payout(m, outcome) ==
  LET yesTokens == m.yesTokens + (IF m.lockedYesTokens > 0 THEN m.lockedYesTokens ELSE 0)
      noTokens == m.noTokens + (IF m.lockedNoTokens > 0 THEN m.lockedNoTokens ELSE 0)
  IN IF outcome = "YES"
     THEN Usd(yesTokens) + Usd(m.lockedCollateralNo)
     ELSE Usd(noTokens) + Usd(m.lockedCollateralYes)

SettleUserKeepingCollateral(ub, marketId, outcome, refund) ==
  IF ub = NoUser \/ ub.markets[marketId] = NoMarketBalance THEN ub
  ELSE [availableUSD |-> ub.availableUSD + refund + Payout(ub.markets[marketId], outcome),
        markets |-> [ub.markets EXCEPT ![marketId] =
                       [newMarketBalance EXCEPT
                          !.lockedCollateralYes = ub.markets[marketId].lockedCollateralYes,
                          !.lockedCollateralNo = ub.markets[marketId].lockedCollateralNo]]]

\* Phase 2 on one user's document: refund, unlock tokens, pay out, reset.
SettleUser(ub, marketId, outcome, refund) ==
  IF ub = NoUser \/ ub.markets[marketId] = NoMarketBalance THEN ub
  ELSE [availableUSD |-> ub.availableUSD + refund + Payout(ub.markets[marketId], outcome),
        markets |-> [ub.markets EXCEPT ![marketId] = newMarketBalance]]

SettleAnyMarket(mkts, marketId) == ""

\* The early throw of settleMarket.
SettleError(mkts, marketId) ==
  IF mkts[marketId].settled THEN "Market already settled" ELSE ""

settleMarket(bals, ords, mkts, marketId, outcome) ==
  IF SettleError(mkts, marketId) # ""
  THEN [error |-> SettleError(mkts, marketId),
        balances |-> bals, orders |-> ords, marketDocs |-> mkts]
  ELSE [error |-> "",
        orders |-> [i \in DOMAIN ords |->
                      IF i \in ToCancel(ords, marketId)
                      THEN [ords[i] EXCEPT !.status = "CANCELLED"]
                      ELSE ords[i]],
        balances |-> [u \in DOMAIN bals |->
                        SettleUser(bals[u], marketId, outcome,
                                   buyRefunds(ords, marketId, u))],
        marketDocs |-> [mkts EXCEPT ![marketId] =
                          [settled |-> TRUE, outcome |-> outcome]]]

SettleMarket(marketId, outcome) ==
  /\ Idle
  /\ LET r == settleMarket(balances, orders, marketDocs, marketId, outcome)
     IN /\ r.error = ""
        /\ balances' = r.balances
        /\ orders' = r.orders
        /\ marketDocs' = r.marketDocs
  /\ resp' = Response("settle", TRUE, "")
  /\ UNCHANGED concVars
  /\ UNCHANGED <<trades, minted, cur, transfers>>

SettleRejected(marketId, outcome) ==
  /\ Idle
  /\ LET r == settleMarket(balances, orders, marketDocs, marketId, outcome)
     IN /\ r.error # ""
        /\ balances' = r.balances
        /\ orders' = r.orders
        /\ marketDocs' = r.marketDocs
        /\ resp' = Response("settle", FALSE, r.error)
  /\ UNCHANGED concVars
  /\ UNCHANGED <<trades, minted, cur, transfers>>

Next ==
  \/ \E r \in OrderRequests : SubmitOrder(r, MaxOrders)
  \/ MatchIteration
  \/ MatchReturn
  \/ \E m \in MarketIds, o \in Outcomes : SettleMarket(m, o)

\* Requests handled one at a time, each to completion.
Spec == Init /\ [][Next]_vars

NextApi ==
  \/ \E u \in Users, amt \in TransferAmounts : Deposit(u, amt)
  \/ \E u \in Users, amt \in TransferAmounts : DepositRejected(u, amt)
  \/ \E u \in Users, amt \in TransferAmounts : Withdraw(u, amt)
  \/ \E u \in Users, amt \in TransferAmounts : WithdrawRejected(u, amt)
  \/ \E r \in OrderRequests : SubmitOrder(r, MaxRespOrders)
  \/ \E r \in OrderRequests : SubmitOrderRejected(r)
  \/ MatchIteration
  \/ MatchReturn
  \/ \E m \in MarketIds, o \in Outcomes : SettleMarket(m, o)
  \/ \E m \in MarketIds, o \in Outcomes : SettleRejected(m, o)

\* The same, with deposits, withdrawals and the rejected requests, whose
\* responses are recorded.
SpecApi == Init /\ [][NextApi]_vars

\* Orders at the lowest price the route admits.
ZeroPriceRequests ==
  {[marketId |-> "m1", userId |-> u, side |-> sd, tokenType |-> "YES",
    price |-> 0, quantity |-> 1, signed |-> TRUE] : u \in Users, sd \in Sides}

AdmissionRequests == OrderRequests \cup ZeroPriceRequests

NextAdmission ==
  \/ \E r \in AdmissionRequests : SubmitOrder(r, MaxOrders)
  \/ \E r \in AdmissionRequests : SubmitOrderRejected(r)
  \/ MatchIteration
  \/ MatchReturn

\* The order route alone, with its rejections, on up to MaxOrders orders,
\* the orders at price 0 included.
SpecAdmission == Init /\ [][NextAdmission]_vars

(***************************************************************************)
(* Requests in flight together                                             *)
(*                                                                         *)
(* The handlers are async functions on one event loop, with no lock and no *)
(* transaction: a handler runs alone between two awaits, and every await   *)
(* of a query, a create or a save lets the steps of another handler in.    *)
(* A handler works on the documents its queries returned.  save() writes   *)
(* the paths the handler changed on its copy of the document; when the     *)
(* markets array is among them (markModified('markets')) the write is      *)
(* conditional on the version key read with the document and increments    *)
(* it, and fails with a VersionError on a mismatch.  Order and Market      *)
(* saves touch no array: they are unconditional writes of the changed      *)
(* fields.  Trade.create is folded into the save that follows it: no       *)
(* handler reads the Trade collection.                                     *)
(***************************************************************************)
\* One request running alone, to completion: the collections it leaves and
\* the index of the order it created (0 if none).
RECURSIVE MatchLoop(_, _)
MatchLoop(db, st) ==
  IF LoopRuns(st) /\ HasOpposing(db.orders, st)
  THEN MatchLoop(MatchStep(db, st).db, MatchStep(db, st).st)
  ELSE [db EXCEPT !.orders = FinalStatus(db.orders, st)]

SerialOrder(db, r) ==
  LET adm == Admission(db.balances, db.orders, r)
  IN IF adm.error # "" THEN [db |-> db, orderId |-> 0]
     ELSE [db |-> MatchLoop([db EXCEPT !.balances = adm.balances,
                                       !.orders = adm.orders],
                            [orderId |-> Len(adm.orders),
                             remainingQty |-> r.quantity, stillOpen |-> TRUE]),
           orderId |-> Len(adm.orders)]

SerialSettle(db, marketId, outcome) ==
  LET r == settleMarket(db.balances, db.orders, db.marketDocs, marketId, outcome)
  IN [db |-> [db EXCEPT !.balances = r.balances, !.orders = r.orders,
                        !.marketDocs = r.marketDocs],
      orderId |-> 0]

OrderRequest(r) == [kind |-> "order", order |-> r]
SettleRequest(marketId, outcome) ==
  [kind |-> "settle", marketId |-> marketId, outcome |-> outcome]

SerialRequest(db, req) ==
  IF req.kind = "order" THEN SerialOrder(db, req.order)
  ELSE SerialSettle(db, req.marketId, req.outcome)

\* The requests sent together: valid signed orders for YES in the first
\* market, and its settlement.
ConcOrders ==
  {r \in OrderRequests :
     /\ r.marketId = "m1" /\ r.tokenType = "YES" /\ r.signed
     /\ r.price \in Prices /\ r.quantity = 1}

ConcRequests ==
  {OrderRequest(r) : r \in ConcOrders}
    \cup {SettleRequest("m1", o) : o \in Outcomes}

\* The collections they start from: what two earlier orders, one of each
\* user, leave behind when handled one after the other.
ConcOrder(userId, side, tokenType, price, quantity) ==
  [marketId |-> "m1", userId |-> userId, side |-> side, tokenType |-> tokenType,
   price |-> price, quantity |-> quantity, signed |-> TRUE]

BaseScripts ==
  { <<ConcOrder("a", "SELL", "YES", 50, 1), ConcOrder("b", "BUY", "NO", 50, 1)>>,
    <<ConcOrder("a", "SELL", "YES", 50, 2), ConcOrder("b", "BUY", "YES", 50, 1)>>,
    <<ConcOrder("a", "BUY", "YES", 100, 1), ConcOrder("b", "SELL", "NO", 50, 1)>> }

ConcBases ==
  {SerialOrder(SerialOrder(InitDb, s[1]).db, s[2]).db : s \in BaseScripts}

\* save() of a UserBalance whose markets array is marked modified.
UserSave(bals, vers, userId, loaded, loadedVersion, doc) ==
  IF vers[userId] # loadedVersion
  THEN [ok |-> FALSE, balances |-> bals, versions |-> vers]
  ELSE [ok |-> TRUE,
        balances |-> [bals EXCEPT ![userId] =
                        [availableUSD |-> IF doc.availableUSD # loaded.availableUSD
                                          THEN doc.availableUSD
                                          ELSE bals[userId].availableUSD,
                         markets |-> doc.markets]],
        versions |-> [vers EXCEPT ![userId] = @ + 1]]

\* save() of an Order: the fields that differ from the loaded document.
OrderSave(ords, loaded, doc) ==
  [ords EXCEPT ![loaded.orderId] =
     [@ EXCEPT !.filledQuantity = IF doc.filledQuantity # loaded.filledQuantity
                                  THEN doc.filledQuantity ELSE @,
               !.status = IF doc.status # loaded.status THEN doc.status ELSE @]]

Done(req, error, orderId) ==
  [pc |-> "done", req |-> req, error |-> error, orderId |-> orderId]

At(p, pc) == procs[p].pc = pc
Goto(p, proc) == procs' = [procs EXCEPT ![p] = proc]

\* POST /api/order up to the findOne of the user's document; the locking
\* that follows it is computed on the copy.
FindUser(p, r) ==
  /\ At(p, "idle")
  /\ LET adm == Admission(balances, orders, r)
     IN Goto(p, IF adm.error # "" THEN Done(OrderRequest(r), adm.error, 0)
                ELSE [pc |-> "saveUser", req |-> OrderRequest(r),
                      userBalance |-> balances[toLowerCase(r.userId)],
                      version |-> versions[toLowerCase(r.userId)],
                      locked |-> adm.balances[toLowerCase(r.userId)]])
  /\ UNCHANGED <<balances, marketDocs, orders, trades, minted, cur, transfers,
                 resp, versions, base, script>>

\* await userBalance.save(); a failure is caught by the route: 500.
SaveUser(p) ==
  /\ At(p, "saveUser")
  /\ LET me == procs[p]
         s == UserSave(balances, versions, me.req.order.userId,
                       me.userBalance, me.version, me.locked)
     IN /\ balances' = s.balances
        /\ versions' = s.versions
        /\ Goto(p, IF s.ok THEN [pc |-> "createOrder", req |-> me.req]
                   ELSE Done(me.req, "VersionError", 0))
  /\ UNCHANGED <<marketDocs, orders, trades, minted, cur, transfers, resp, base, script>>

\* await Order.create(...), and the entry of matchOrders.
CreateOrder(p) ==
  /\ At(p, "createOrder")
  /\ LET me == procs[p]
         newOrder == NewOrder(Len(orders) + 1, me.req.order)
     IN /\ orders' = Append(orders, newOrder)
        /\ Goto(p, [pc |-> "findBest", req |-> me.req,
                    incomingOrder |-> newOrder,
                    remainingQty |-> newOrder.quantity - newOrder.filledQuantity])
  /\ UNCHANGED <<balances, marketDocs, trades, minted, cur, transfers, resp,
                 versions, base, script>>

\* await Order.findOne(...): the loop ends without a match (the save after
\* it changes no field), or marks an exhausted order FILLED, or goes on to
\* fill the order found.
FindBest(p) ==
  /\ At(p, "findBest")
  /\ LET me == procs[p]
         b == BestOpposingOrder(orders, me.incomingOrder)
     IN IF b = 0
        THEN /\ Goto(p, Done(me.req, "", me.incomingOrder.orderId))
             /\ UNCHANGED orders
        ELSE IF orders[b].quantity - orders[b].filledQuantity <= 0
        THEN /\ orders' = [orders EXCEPT ![b].status = "FILLED"]
             /\ UNCHANGED procs
        ELSE /\ Goto(p, [pc |-> "saveBest", req |-> me.req,
                         incomingOrder |-> me.incomingOrder,
                         remainingQty |-> me.remainingQty,
                         bestOpposingOrder |-> orders[b],
                         matchQty |-> Min(me.remainingQty,
                                          orders[b].quantity - orders[b].filledQuantity)])
             /\ UNCHANGED orders
  /\ UNCHANGED <<balances, marketDocs, trades, minted, cur, transfers, resp,
                 versions, base, script>>

Filled(o, matchQty) ==
  LET f == [o EXCEPT !.filledQuantity = @ + matchQty]
  IN [f EXCEPT !.status = FillStatus(f)]

\* await Trade.create(...) and await bestOpposingOrder.save().
SaveBest(p) ==
  /\ At(p, "saveBest")
  /\ LET me == procs[p]
         inc == me.incomingOrder
         best == me.bestOpposingOrder
     IN /\ trades' = Append(trades,
             [marketId |-> inc.marketId,
              buyOrderId |-> IF inc.side = "BUY" THEN inc.orderId ELSE best.orderId,
              sellOrderId |-> IF inc.side = "SELL" THEN inc.orderId ELSE best.orderId,
              price |-> best.price, quantity |-> me.matchQty,
              tokenType |-> inc.tokenType])
        /\ orders' = OrderSave(orders, best, Filled(best, me.matchQty))
        /\ Goto(p, [me EXCEPT !.pc = "saveIncoming"])
  /\ UNCHANGED <<balances, marketDocs, minted, cur, transfers, resp, versions, base, script>>

\* await incomingOrder.save().
SaveIncoming(p) ==
  /\ At(p, "saveIncoming")
  /\ LET me == procs[p]
         inc == Filled(me.incomingOrder, me.matchQty)
     IN /\ orders' = OrderSave(orders, me.incomingOrder, inc)
        /\ Goto(p, [me EXCEPT !.pc = "fetchBalances", !.incomingOrder = inc])
  /\ UNCHANGED <<balances, marketDocs, trades, minted, cur, transfers, resp,
                 versions, base, script>>

BuyerId(me) ==
  IF me.incomingOrder.side = "BUY"
  THEN me.incomingOrder.userId ELSE me.bestOpposingOrder.userId
SellerId(me) ==
  IF me.incomingOrder.side = "SELL"
  THEN me.incomingOrder.userId ELSE me.bestOpposingOrder.userId

\* await Promise.all of the two findOne of the balances.
FetchBalances(p) ==
  /\ At(p, "fetchBalances")
  /\ LET me == procs[p]
         buyerId == BuyerId(me)
         sellerId == SellerId(me)
     IN Goto(p, IF balances[buyerId] = NoUser \/ balances[sellerId] = NoUser
                THEN Done(me.req, "", me.incomingOrder.orderId)
                ELSE [pc |-> "saveBalances", req |-> me.req,
                      incomingOrder |-> me.incomingOrder,
                      remainingQty |-> me.remainingQty,
                      bestOpposingOrder |-> me.bestOpposingOrder,
                      matchQty |-> me.matchQty,
                      buyerBal |-> balances[buyerId],
                      buyerVersion |-> versions[buyerId],
                      sellerBal |-> balances[sellerId],
                      sellerVersion |-> versions[sellerId]])
  /\ UNCHANGED <<balances, marketDocs, orders, trades, minted, cur, transfers,
                 resp, versions, base, script>>

\* executeTrade on the fetched documents and its two saves, whose failures
\* it swallows; then the end of the iteration (the save of the incoming
\* order changes no field).
SaveBalances(p) ==
  /\ At(p, "saveBalances")
  /\ LET me == procs[p]
         inc == me.incomingOrder
         ex == executeTrade(me.buyerBal, me.sellerBal, inc.marketId, inc.tokenType,
                            me.bestOpposingOrder.price, me.matchQty,
                            IF inc.side = "BUY" THEN inc.price
                            ELSE me.bestOpposingOrder.price)
         sb == UserSave(balances, versions, BuyerId(me), me.buyerBal,
                        me.buyerVersion, ex.buyerBal)
         ss == UserSave(sb.balances, sb.versions, SellerId(me), me.sellerBal,
                        me.sellerVersion, ex.sellerBal)
         remainingQty == me.remainingQty - me.matchQty
     IN /\ IF ex.saved
           THEN /\ balances' = ss.balances
                /\ versions' = ss.versions
                /\ minted' = [minted EXCEPT ![inc.marketId][inc.tokenType] =
                                @ + (IF ss.ok THEN ex.shorted ELSE 0)]
           ELSE UNCHANGED <<balances, versions, minted>>
        /\ Goto(p, IF remainingQty <= 0 THEN Done(me.req, "", inc.orderId)
                   ELSE [pc |-> "findBest", req |-> me.req, incomingOrder |-> inc,
                         remainingQty |-> remainingQty])
  /\ UNCHANGED <<marketDocs, orders, trades, cur, transfers, resp, base, script>>

\* POST /api/market/settle up to the findOne of settleMarket and its throw.
SettleFindMarket(p, marketId, outcome) ==
  /\ At(p, "idle")
  /\ Goto(p, IF SettleError(marketDocs, marketId) # ""
             THEN Done(SettleRequest(marketId, outcome),
                       SettleError(marketDocs, marketId), 0)
             ELSE [pc |-> "findOrders", req |-> SettleRequest(marketId, outcome)])
  /\ UNCHANGED <<balances, marketDocs, orders, trades, minted, cur, transfers,
                 resp, versions, base, script>>

\* await Order.find(...) of the open orders; the refunds are computed on them.
SettleFindOrders(p) ==
  /\ At(p, "findOrders")
  /\ LET me == procs[p]
     IN Goto(p, [pc |-> "cancelOrders", req |-> me.req,
                 openOrders |-> ToCancel(orders, me.req.marketId),
                 refunds |-> [u \in Users |->
                                buyRefunds(orders, me.req.marketId, u)]])
  /\ UNCHANGED <<balances, marketDocs, orders, trades, minted, cur, transfers,
                 resp, versions, base, script>>

\* await Promise.all of the saves that cancel them.
SettleCancelOrders(p) ==
  /\ At(p, "cancelOrders")
  /\ LET me == procs[p]
     IN /\ orders' = [i \in DOMAIN orders |->
                        IF i \in me.openOrders
                        THEN [orders[i] EXCEPT !.status = "CANCELLED"]
                        ELSE orders[i]]
        /\ Goto(p, [pc |-> "findUsers", req |-> me.req, refunds |-> me.refunds])
  /\ UNCHANGED <<balances, marketDocs, trades, minted, cur, transfers, resp,
                 versions, base, script>>

\* await UserBalance.find({}).
SettleFindUsers(p) ==
  /\ At(p, "findUsers")
  /\ LET me == procs[p]
     IN Goto(p, [pc |-> "saveUsers", req |-> me.req, refunds |-> me.refunds,
                 allUsers |-> balances, allVersions |-> versions])
  /\ UNCHANGED <<balances, marketDocs, orders, trades, minted, cur, transfers,
                 resp, versions, base, script>>

Participates(ub, marketId) ==
  ub # NoUser /\ ub.markets[marketId] # NoMarketBalance

RECURSIVE SaveUsers(_, _, _, _)
SaveUsers(S, me, bals, vers) ==
  IF S = {} THEN [ok |-> TRUE, balances |-> bals, versions |-> vers]
  ELSE LET u == CHOOSE x \in S : TRUE
           s == UserSave(bals, vers, u, me.allUsers[u], me.allVersions[u],
                         SettleUser(me.allUsers[u], me.req.marketId,
                                    me.req.outcome, me.refunds[u]))
           rest == SaveUsers(S \ {u}, me, s.balances, s.versions)
       IN [rest EXCEPT !.ok = @ /\ s.ok]

\* await Promise.all of the saves of the participants; one failure makes
\* settleMarket throw before the market is marked.
SettleSaveUsers(p) ==
  /\ At(p, "saveUsers")
  /\ LET me == procs[p]
         s == SaveUsers({u \in Users : Participates(me.allUsers[u], me.req.marketId)},
                        me, balances, versions)
     IN /\ balances' = s.balances
        /\ versions' = s.versions
        /\ Goto(p, IF s.ok THEN [pc |-> "saveMarket", req |-> me.req]
                   ELSE Done(me.req, "VersionError", 0))
  /\ UNCHANGED <<marketDocs, orders, trades, minted, cur, transfers, resp, base, script>>

\* await market.save().
SettleSaveMarket(p) ==
  /\ At(p, "saveMarket")
  /\ LET me == procs[p]
     IN /\ marketDocs' = [marketDocs EXCEPT ![me.req.marketId] =
                            [settled |-> TRUE, outcome |-> me.req.outcome]]
        /\ Goto(p, Done(me.req, "", 0))
  /\ UNCHANGED <<balances, orders, trades, minted, cur, transfers, resp,
                 versions, base, script>>

InitConc == \E db \in ConcBases : InitFrom(db)

NextConc ==
  \/ \E p \in Procs, r \in ConcOrders : FindUser(p, r)
  \/ \E p \in Procs : SaveUser(p)
  \/ \E p \in Procs : CreateOrder(p)
  \/ \E p \in Procs : FindBest(p)
  \/ \E p \in Procs : SaveBest(p)
  \/ \E p \in Procs : SaveIncoming(p)
  \/ \E p \in Procs : FetchBalances(p)
  \/ \E p \in Procs : SaveBalances(p)
  \/ \E p \in Procs, o \in Outcomes : SettleFindMarket(p, "m1", o)
  \/ \E p \in Procs : SettleFindOrders(p)
  \/ \E p \in Procs : SettleCancelOrders(p)
  \/ \E p \in Procs : SettleFindUsers(p)
  \/ \E p \in Procs : SettleSaveUsers(p)
  \/ \E p \in Procs : SettleSaveMarket(p)

\* Two requests for one market, sent together and interleaved at their awaits.
SpecConc == InitConc /\ [][NextConc]_vars

(***************************************************************************)
(* The order route on BUY orders of any quantity                           *)
(*                                                                         *)
(* The request body carries the quantity as a JSON number.  Here the       *)
(* quantities are counted in QuantityScale-ths of a token, and so that     *)
(* price * quantity stays exact, money in QuantityScale-ths of a cent.     *)
(* The book holds BUY orders only, so matchOrders finds no opposing order. *)
(***************************************************************************)
QuantityScale == 2

FractionRequests ==
  [marketId : {"m1"}, userId : Users, side : {"BUY"}, tokenType : {"YES"},
   price : Prices \cup BadPrices \cup {0},
   quantity : (0 - QuantityScale) .. (MaxQty * QuantityScale), signed : {TRUE}]

InitValidation ==
  InitFrom(Db([u \in Users |-> NewUserBalance(InitialUSD * QuantityScale)],
              <<>>, <<>>, InitDb.minted, InitDb.marketDocs))

NextValidation ==
  \/ \E r \in FractionRequests : SubmitOrder(r, MaxOrders)
  \/ \E r \in FractionRequests : SubmitOrderRejected(r)
  \/ MatchReturn

SpecValidation == InitValidation /\ [][NextValidation]_vars

(***************************************************************************)
(* The indexer: processUserDeposit on the userbalances collection          *)
(*                                                                         *)
(* In this specification `balances` holds the documents the indexer        *)
(* writes: next to availableUSD they carry the raw amounts, the height     *)
(* last indexed per chain and the transactions pushed.  availableUSD is    *)
(* written as newBalance.toString() and read back with parseFloat, which   *)
(* gives the number back; it is kept as the number, in cents.              *)
(***************************************************************************)
ChainIds == {"xion-testnet-1", "sonicBlazeTestnet"}
MaxDeposits == 3
\* tx.blockHeight is a string: the height of the chain's response, or "0"
\* when the response carries none.
BlockHeights == {"0", "1", "2"}
parseInt(str) == CASE str = "0" -> 0 [] str = "1" -> 1 [] str = "2" -> 2

ChainTransactions ==
  [txHash : {"tx1", "tx2"}, blockHeight : BlockHeights, chainId : ChainIds]

\* One call: the event's user and amount, and the transaction it came in.
DepositCalls ==
  {c \in [userId : Users, depositAmountInUSD : {1},
          transaction : ChainTransactions] :
     \* a transaction has one height on its chain
     c.transaction.txHash = "tx1" => c.transaction.blockHeight # "2"}

\* if (lastBlockIndexed && lastBlockIndexed[chainId] &&
\*     currentBlockHeight <= lastBlockIndexed[chainId])
AlreadyIndexed(existingUser, chainId, currentBlockHeight) ==
  /\ chainId \in DOMAIN existingUser.lastBlockIndexed
  /\ existingUser.lastBlockIndexed[chainId] # 0
  /\ currentBlockHeight <= existingUser.lastBlockIndexed[chainId]

\* a[chainId] = v, on a document's map from chain ids
SetKey(a, chainId, v) ==
  [c \in DOMAIN a \cup {chainId} |-> IF c = chainId THEN v ELSE a[c]]

processUserDeposit(collection, userId, chainId, depositAmountInUSD, transaction) ==
  LET normalizedUserId == toLowerCase(userId)
      existingUser == collection[normalizedUserId]
      currentBlockHeight == parseInt(transaction.blockHeight)
  IN IF existingUser # NoUser
     THEN IF AlreadyIndexed(existingUser, chainId, currentBlockHeight)
          THEN collection
          ELSE LET currentChainAmount ==
                     IF chainId \in DOMAIN existingUser.chainDeposits
                     THEN existingUser.chainDeposits[chainId] ELSE 0
               IN [collection EXCEPT ![normalizedUserId] =
                     [existingUser EXCEPT
                        !.availableUSD = @ + Usd(depositAmountInUSD),
                        !.availableCollateral = @ + depositAmountInUSD,
                        !.chainDeposits =
                           SetKey(@, chainId, currentChainAmount + depositAmountInUSD),
                        !.lastBlockIndexed = SetKey(@, chainId, currentBlockHeight),
                        !.transactions = Append(@, transaction)]]
     ELSE [collection EXCEPT ![normalizedUserId] =
             [availableUSD |-> Usd(depositAmountInUSD),
              availableCollateral |-> depositAmountInUSD,
              chainDeposits |-> SetKey(<<>>, chainId, depositAmountInUSD),
              lastBlockIndexed |-> SetKey(<<>>, chainId, currentBlockHeight),
              transactions |-> <<transaction>>,
              markets |-> [m \in MarketIds |-> NoMarketBalance]]]

\* The transactions pushed so far, over all users.
Indexed(collection) ==
  LET n == [u \in DOMAIN collection |->
              IF collection[u] = NoUser THEN 0 ELSE Len(collection[u].transactions)]
  IN SumOver(DOMAIN collection, n)

\* A call that writes: the user is created or credited.
ProcessUserDeposit(c) ==
  /\ Indexed(balances) < MaxDeposits
  /\ balances' = processUserDeposit(balances, c.userId, c.transaction.chainId,
                                    c.depositAmountInUSD, c.transaction)
  /\ balances' # balances
  /\ UNCHANGED concVars
  /\ UNCHANGED <<marketDocs, orders, trades, minted, cur, transfers, resp>>

\* A call that returns at "Skipping deposit": nothing is written.
SkipUserDeposit(c) ==
  /\ processUserDeposit(balances, c.userId, c.transaction.chainId,
                        c.depositAmountInUSD, c.transaction) = balances
  /\ UNCHANGED vars

InitDeposit ==
  InitFrom(Db([u \in Users |-> NoUser], <<>>, <<>>, InitDb.minted, InitDb.marketDocs))

NextDeposit ==
  \/ \E c \in DepositCalls : ProcessUserDeposit(c)
  \/ \E c \in DepositCalls : SkipUserDeposit(c)

SpecDeposit == InitDeposit /\ [][NextDeposit]_vars

(***************************************************************************)
(* Scripted runs: the end-to-end scenarios and the trading script          *)
(*                                                                         *)
(* Five traders are each credited 100 USD under the user id the script     *)
(* gives them, then the orders of the script are posted one after the      *)
(* other to one market, each handled to its response, and the market is    *)
(* settled with the outcome of the run, if it has one.  A script stops at  *)
(* the first order that is rejected.                                       *)
(***************************************************************************)
Traders == {"a", "b", "c", "d", "e"}
\* The ids of the trading script, without their timestamp suffix.
ScriptTraders == {"TraderA", "TraderB", "TraderC", "TraderD", "TraderE"}
ScriptUserIds == Traders \cup ScriptTraders \cup {toLowerCase(u) : u \in ScriptTraders}
InitialDeposit == 100

\* POST /users/deposit creates the document under the userId it is given.
ScriptDb(traders) ==
  Db([u \in ScriptUserIds |->
        IF u \in traders THEN NewUserBalance(Usd(InitialDeposit)) ELSE NoUser],
     <<>>, <<>>,
     [m \in MarketIds |-> [t \in TokenTypes |-> 0]],
     [m \in MarketIds |-> NewMarket])

\* The sixteen orders of the trading script, for the five ids it is run with.
TradingScript(a, b, c, d, e) ==
  << ConcOrder(a, "BUY", "YES", 50, 10), ConcOrder(b, "SELL", "YES", 50, 10),
     ConcOrder(c, "BUY", "YES", 55, 5), ConcOrder(d, "SELL", "YES", 55, 5),
     ConcOrder(b, "SELL", "NO", 48, 5), ConcOrder(e, "BUY", "NO", 48, 5),
     ConcOrder(a, "BUY", "YES", 60, 5), ConcOrder(c, "SELL", "YES", 60, 10),
     ConcOrder(d, "BUY", "NO", 45, 2), ConcOrder(e, "SELL", "NO", 40, 3),
     ConcOrder(a, "BUY", "YES", 70, 15), ConcOrder(b, "SELL", "NO", 30, 2),
     ConcOrder(a, "SELL", "YES", 65, 5), ConcOrder(a, "BUY", "YES", 65, 5),
     ConcOrder(b, "BUY", "NO", 35, 3), ConcOrder(b, "SELL", "NO", 35, 3) >>

ScriptOrders(name) ==
  CASE name = "initialMint" ->
         << ConcOrder("a", "BUY", "YES", 50, 10), ConcOrder("b", "SELL", "YES", 50, 10) >>
    [] name = "improvedPrice" ->
         << ConcOrder("a", "BUY", "YES", 60, 10), ConcOrder("b", "SELL", "YES", 50, 10) >>
    [] name = "improvedPriceSellFirst" ->
         << ConcOrder("b", "SELL", "YES", 50, 10), ConcOrder("a", "BUY", "YES", 60, 10) >>
    [] name = "partialFills" ->
         << ConcOrder("a", "BUY", "YES", 55, 10), ConcOrder("b", "SELL", "YES", 50, 3),
            ConcOrder("c", "SELL", "YES", 55, 4) >>
    [] name = "partialFillsSellFirst" ->
         << ConcOrder("b", "SELL", "YES", 50, 3), ConcOrder("c", "SELL", "YES", 55, 4),
            ConcOrder("a", "BUY", "YES", 55, 10) >>
    [] name = "secondaryNo" ->
         << ConcOrder("a", "BUY", "YES", 50, 10), ConcOrder("b", "SELL", "YES", 50, 10),
            ConcOrder("b", "SELL", "NO", 48, 5), ConcOrder("e", "BUY", "NO", 48, 5) >>
    [] name = "selfMatch" ->
         << ConcOrder("a", "SELL", "YES", 65, 5), ConcOrder("a", "BUY", "YES", 65, 5) >>
    [] name = "tradingScript" -> TradingScript("TraderA", "TraderB", "TraderC", "TraderD", "TraderE")
    [] name = "tradingScriptLowerCase" -> TradingScript("a", "b", "c", "d", "e")

ScriptNames ==
  {"initialMint", "improvedPrice", "improvedPriceSellFirst", "partialFills",
   "partialFillsSellFirst", "secondaryNo", "selfMatch", "tradingScript",
   "tradingScriptLowerCase"}

\* The user ids a script deposits for.
ScriptIds(name) == IF name = "tradingScript" THEN ScriptTraders ELSE Traders

Scripts ==
  {[name |-> n, orders |-> ScriptOrders(n), outcome |-> o] :
     n \in ScriptNames, o \in Outcomes \cup {"none"}}

InitScript ==
  /\ script \in Scripts
  /\ balances = ScriptDb(ScriptIds(script.name)).balances
  /\ marketDocs = ScriptDb(ScriptIds(script.name)).marketDocs
  /\ orders = <<>>
  /\ trades = <<>>
  /\ minted = ScriptDb(ScriptIds(script.name)).minted
  /\ cur = NoOrder
  /\ transfers = 0
  /\ resp = Response("none", TRUE, "")
  /\ procs = [p \in Procs |-> IdleProc]
  /\ versions = [u \in Users |-> 0]
  /\ base = ScriptDb(ScriptIds(script.name))

\* The next order of the script is posted.
ScriptSubmit ==
  /\ Len(orders) < Len(script.orders)
  /\ ~marketDocs["m1"].settled
  /\ SubmitOrder(script.orders[Len(orders) + 1], Len(script.orders))

\* The next order of the script is rejected: the script exits.
ScriptSubmitRejected ==
  /\ Len(orders) < Len(script.orders)
  /\ ~marketDocs["m1"].settled
  /\ SubmitOrderRejected(script.orders[Len(orders) + 1])

\* All orders were posted and handled: the market is settled.
ScriptSettle ==
  /\ Len(orders) = Len(script.orders)
  /\ script.outcome \in Outcomes
  /\ SettleMarket("m1", script.outcome)

NextScript ==
  \/ ScriptSubmit
  \/ ScriptSubmitRejected
  \/ MatchIteration
  \/ MatchReturn
  \/ ScriptSettle

SpecScript == InitScript /\ [][NextScript]_vars

\* The orders of the script have all been handled.
ScriptPlayed(name) ==
  /\ script.name = name
  /\ Len(orders) = Len(script.orders)
  /\ cur = NoOrder

(***************************************************************************)
(* Quantities the properties are stated in                                 *)
(***************************************************************************)
OrdersIn(ords, marketId) == {i \in DOMAIN ords : ords[i].marketId = marketId}
TradesIn(trds, marketId) == {i \in DOMAIN trds : trds[i].marketId = marketId}

Unfilled(o) == o.quantity - o.filledQuantity

SumField(bals, marketId, F(_)) ==
  SumOver(DOMAIN bals, [u \in DOMAIN bals |-> F(Position(bals[u], marketId))])

YesSupply(p) == p.yesTokens + p.lockedYesTokens
NoSupply(p) == p.noTokens + p.lockedNoTokens
CollateralYes(p) == p.lockedCollateralYes
CollateralNo(p) == p.lockedCollateralNo
Collateral(p) == p.lockedCollateralYes + p.lockedCollateralNo

\* availableUSD of all users plus all locked collateral, in cents.
Money(bals) ==
  SumOver(DOMAIN bals,
          [u \in DOMAIN bals |->
             (IF bals[u] = NoUser THEN 0 ELSE bals[u].availableUSD)
             + SumOver(MarketIds,
                       [m \in MarketIds |-> Usd(Collateral(Position(bals[u], m)))])])

Settles(marketId) ==
  ~marketDocs[marketId].settled /\ marketDocs'[marketId].settled

(***************************************************************************)
(* Properties                                                              *)
(***************************************************************************)

\* C1: once a market is settled, no step admits an order for it or creates
\* a trade in it.
C1_SettledMarketIsClosed ==
  [][\A m \in MarketIds :
       marketDocs[m].settled =>
         /\ OrdersIn(orders', m) = OrdersIn(orders, m)
         /\ TradesIn(trades', m) = TradesIn(trades, m)]_vars

\* C2: the collateral a settlement forfeits (the lockedCollateral of the
\* outcome's side, over all users) equals the winnings it pays on the tokens
\* that short sales of that side minted, one dollar each.
C2_Solvency ==
  [][\A m \in MarketIds :
       Settles(m) =>
         LET outcome == marketDocs'[m].outcome
         IN (IF outcome = "YES"
             THEN SumField(balances, m, CollateralYes)
             ELSE SumField(balances, m, CollateralNo)) = minted[m][outcome]]_vars

\* C3: availableUSD and the six fields of every position are never negative.
C3_NonNegative ==
  \A u \in Users :
    balances[u] # NoUser =>
      /\ balances[u].availableUSD >= 0
      /\ \A m \in MarketIds :
           LET p == Position(balances[u], m)
           IN /\ p.yesTokens >= 0 /\ p.noTokens >= 0
              /\ p.lockedYesTokens >= 0 /\ p.lockedNoTokens >= 0
              /\ p.lockedCollateralYes >= 0 /\ p.lockedCollateralNo >= 0

\* A deposit or a withdrawal has been accepted, a fill has minted tokens, a
\* market is settled, and some user has spent his whole balance.
C3_Witness ==
  /\ transfers > 0
  /\ \E m \in MarketIds : marketDocs[m].settled
  /\ \E m \in MarketIds, t \in TokenTypes : minted[m][t] > 0
  /\ \E u \in Users : balances[u].availableUSD = 0

\* C4: the seller of every OPEN or PARTIAL SELL order holds, in locked tokens
\* plus locked collateral of the order's token type, at least the order's
\* unfilled remainder.
Backing(o) ==
  LET p == Position(balances[o.userId], o.marketId)
  IN IF o.tokenType = "YES"
     THEN p.lockedYesTokens + p.lockedCollateralYes
     ELSE p.lockedNoTokens + p.lockedCollateralNo

C4_SellOrdersBacked ==
  \A i \in DOMAIN orders :
    (Active(orders[i]) /\ orders[i].side = "SELL") =>
      Backing(orders[i]) >= Unfilled(orders[i])

\* A seller with two resting SELL orders of one token type in one market, one
\* of them partially filled, backed by both locked tokens and collateral.
C4_Witness ==
  \E i, j \in DOMAIN orders :
    /\ i # j
    /\ orders[i].side = "SELL" /\ orders[j].side = "SELL"
    /\ orders[i].userId = orders[j].userId
    /\ orders[i].marketId = orders[j].marketId
    /\ orders[i].tokenType = orders[j].tokenType
    /\ orders[i].status = "PARTIAL" /\ Active(orders[j])
    /\ cur = NoOrder

\* A seller who sold more tokens than he owned: the order is backed by his
\* locked tokens and by collateral.
C4_WitnessMixed ==
  \E i \in DOMAIN orders :
    /\ orders[i].side = "SELL" /\ Active(orders[i])
    /\ LET p == Position(balances[orders[i].userId], orders[i].marketId)
       IN p.lockedYesTokens > 0 /\ p.lockedCollateralYes > 0

\* C5 as stated: in an unsettled market the YES tokens equal the locked YES
\* collateral and the NO tokens the locked NO collateral.
C5_SupplyEqualsCollateral ==
  \A m \in MarketIds :
    ~marketDocs[m].settled =>
      /\ SumField(balances, m, YesSupply) = SumField(balances, m, CollateralYes)
      /\ SumField(balances, m, NoSupply) = SumField(balances, m, CollateralNo)

\* C5 as amended: in an unsettled market neither the YES tokens nor the NO
\* tokens exceed the collateral locked for short sales of both types.
C5_SupplyWithinCollateral ==
  \A m \in MarketIds :
    ~marketDocs[m].settled =>
      /\ SumField(balances, m, YesSupply) <= SumField(balances, m, Collateral)
      /\ SumField(balances, m, NoSupply) <= SumField(balances, m, Collateral)

\* An unsettled market in which a short sale of YES has been filled: the
\* minted YES and the seller's NO both equal the YES collateral, and no NO
\* collateral is locked.
C5_Witness ==
  \E m \in MarketIds :
    /\ ~marketDocs[m].settled
    /\ minted[m]["YES"] > 0
    /\ SumField(balances, m, CollateralNo) = 0
    /\ SumField(balances, m, NoSupply) > 0
    /\ SumField(balances, m, YesSupply) = SumField(balances, m, Collateral)

\* The fill a step applies: the trade it appends, its buyer's limit price and
\* the price improvement on it.
Fills == Len(trades') = Len(trades) + 1
Fill == trades'[Len(trades')]
FillLimit == orders[Fill.buyOrderId].price
FillImprovement ==
  IF FillLimit > Fill.price THEN (FillLimit - Fill.price) * Fill.quantity ELSE 0

C7_SettlementResets ==
  [][\A m \in MarketIds, o \in Outcomes :
       SettleMarket(m, o) =>
         /\ marketDocs'[m] = [settled |-> TRUE, outcome |-> o]
         /\ \A u \in Users :
              /\ Position(balances'[u], m) = newMarketBalance
              /\ \A m2 \in MarketIds \ {m} :
                   Position(balances'[u], m2) = Position(balances[u], m2)]_vars

\* A market was settled while users held tokens minted in it and another,
\* unsettled market holds locked collateral.
C7_Witness ==
  \E m, m2 \in MarketIds :
    /\ m # m2
    /\ marketDocs[m].settled /\ ~marketDocs[m2].settled
    /\ resp = Response("settle", TRUE, "")
    /\ minted[m]["YES"] > 0
    /\ \E i \in DOMAIN orders :
         orders[i].marketId = m /\ orders[i].status = "CANCELLED"
    /\ SumField(balances, m2, Collateral) > 0

\* C8: a settle request for a settled market is answered with the error and
\* changes no balance, position, order, trade or market.
C8_SecondSettleRejected ==
  [][\A m \in MarketIds, o \in Outcomes :
       (marketDocs[m].settled /\ (SettleMarket(m, o) \/ SettleRejected(m, o))) =>
         /\ resp' = Response("settle", FALSE, "Market already settled")
         /\ UNCHANGED <<balances, marketDocs, orders, trades>>]_vars

\* The second settle request was rejected in a market that has, since its
\* settlement, taken an order again.
C8_Witness ==
  /\ resp = Response("settle", FALSE, "Market already settled")
  /\ \E m \in MarketIds :
       /\ marketDocs[m].settled
       /\ \E i \in DOMAIN orders : orders[i].marketId = m /\ Active(orders[i])

\* What two runs are compared on: balances, markets, the orders and the
\* trades, an order being named by the request that created it.
Label(i, ids) ==
  IF \E p \in Procs : ids[p] = i /\ i # 0
  THEN Len(base.orders) + (CHOOSE p \in Procs : ids[p] = i)
  ELSE i

Outcome(db, ids) ==
  LET T(i) == [db.trades[i] EXCEPT !.buyOrderId = Label(@, ids),
                                   !.sellOrderId = Label(@, ids)]
  IN [balances |-> db.balances,
      marketDocs |-> db.marketDocs,
      orders |-> {[db.orders[i] EXCEPT !.orderId = Label(i, ids)] :
                    i \in DOMAIN db.orders},
      trades |-> {<<T(i), Cardinality({j \in DOMAIN db.trades : T(j) = T(i)})>> :
                    i \in DOMAIN db.trades}]

NoIds == [p \in Procs |-> 0]

\* The outcomes of handling the requests of the handlers in S one at a time,
\* in every order.
SerialOutcomes(S) ==
  IF S = {} THEN {Outcome(base, NoIds)}
  ELSE IF Cardinality(S) = 1
  THEN LET p == CHOOSE x \in S : TRUE
           r == SerialRequest(base, procs[p].req)
       IN {Outcome(r.db, [NoIds EXCEPT ![p] = r.orderId])}
  ELSE {LET r1 == SerialRequest(base, procs[p].req)
            r2 == SerialRequest(r1.db, procs[q].req)
        IN Outcome(r2.db, [NoIds EXCEPT ![p] = r1.orderId, ![q] = r2.orderId]) :
          <<p, q>> \in {pq \in S \X S : pq[1] # pq[2]}}

Quiescent == \A p \in Procs : procs[p].pc \in {"idle", "done"}
Finished == {p \in Procs : procs[p].pc = "done"}
\* A request whose save lost a version conflict may count as not executed.
Conflicted == {p \in Finished : procs[p].error = "VersionError"}

\* C9: when the requests sent together have all returned, the balances,
\* orders and trades are those of handling them one at a time in some order.
C9_Serializable ==
  Quiescent =>
    \E S \in SUBSET Finished :
      /\ Finished \ Conflicted \subseteq S
      /\ Outcome(Db(balances, orders, trades, minted, marketDocs),
                 [p \in Procs |-> IF p \in Finished THEN procs[p].orderId ELSE 0])
           \in SerialOutcomes(S)

\* C10: no trade pairs a BUY and a SELL order of one user.
C10_NoSelfMatch ==
  \A i \in DOMAIN trades :
    orders[trades[i].buyOrderId].userId # orders[trades[i].sellOrderId].userId

\* A user's BUY and SELL orders of one token type rest in the book at
\* crossing prices, the later one after its matching has returned.
C10_Witness ==
  /\ cur = NoOrder
  /\ \E i, j \in DOMAIN orders :
       /\ orders[i].userId = orders[j].userId
       /\ orders[i].marketId = orders[j].marketId
       /\ orders[i].tokenType = orders[j].tokenType
       /\ orders[i].side = "BUY" /\ orders[j].side = "SELL"
       /\ orders[i].price >= orders[j].price
       /\ orders[i].status = "OPEN" /\ orders[j].status = "OPEN"
       /\ Unfilled(orders[i]) > 0 /\ Unfilled(orders[j]) > 0

\* The taker and the maker of the fill a step applies, and the resting orders
\* the taker may be filled against: open, of the opposite side, of another
\* user, in its market and token type, at a price within its limit.
FillTaker == orders[cur.orderId]
FillMaker ==
  orders[IF Fill.buyOrderId = cur.orderId THEN Fill.sellOrderId ELSE Fill.buyOrderId]

Compatible(taker, m) ==
  IF taker.side = "BUY" THEN m.price <= taker.price ELSE m.price >= taker.price

Eligible(taker) ==
  {i \in DOMAIN orders :
     /\ i # taker.orderId
     /\ orders[i].status \in {"OPEN", "PARTIAL"}
     /\ orders[i].side # taker.side
     /\ orders[i].marketId = taker.marketId
     /\ orders[i].tokenType = taker.tokenType
     /\ orders[i].userId # taker.userId
     /\ Compatible(taker, orders[i])}

Better(taker, i, j) ==
  \/ IF taker.side = "BUY" THEN orders[i].price < orders[j].price
                            ELSE orders[i].price > orders[j].price
  \/ orders[i].price = orders[j].price /\ i < j

C12_TradeWellFormed ==
  [][Fills =>
       LET buy == orders[Fill.buyOrderId]
           sell == orders[Fill.sellOrderId]
       IN /\ buy.side = "BUY" /\ sell.side = "SELL"
          /\ buy.marketId = Fill.marketId /\ sell.marketId = Fill.marketId
          /\ buy.tokenType = Fill.tokenType /\ sell.tokenType = Fill.tokenType
          /\ Fill.price = FillMaker.price
          /\ FillMaker.orderId < FillTaker.orderId
          /\ sell.price <= Fill.price /\ Fill.price <= buy.price
          /\ Fill.quantity = (IF Unfilled(FillTaker) <= Unfilled(FillMaker)
                              THEN Unfilled(FillTaker) ELSE Unfilled(FillMaker))
          /\ Fill.quantity > 0]_vars

\* A trade of a larger taker against a smaller resting order at a price
\* better than the taker's limit, with orders of the other token type in
\* the book.
C12_Witness ==
  \E t \in DOMAIN trades :
    LET buy == orders[trades[t].buyOrderId]
        sell == orders[trades[t].sellOrderId]
    IN /\ trades[t].buyOrderId > trades[t].sellOrderId
       /\ buy.quantity > sell.quantity
       /\ trades[t].quantity = sell.quantity
       /\ trades[t].price < buy.price
       /\ \E k \in DOMAIN orders :
            /\ orders[k].marketId = buy.marketId
            /\ orders[k].tokenType # buy.tokenType

\* What the scripted runs are observed on.
Avail(u) == balances[u].availableUSD
Pos(u) == Position(balances[u], "m1")
Unsettled == ~marketDocs["m1"].settled
OneTrade(price, quantity) ==
  /\ Len(trades) = 1
  /\ trades[1].price = price /\ trades[1].quantity = quantity

\* C13 as stated: with A's BUY 10 YES @ 0.60 posted before B's SELL 10 YES
\* @ 0.50, one trade of 10 executes at 0.50, A holds 10 YES and is refunded
\* 1.00 (94 to 95), B is credited 5.00 and has 10 collateral locked.
C13_ImprovedPrice ==
  /\ (script.name = "improvedPrice" /\ Len(orders) = 1 /\ cur = NoOrder) =>
        Avail("a") = 9400
  /\ (ScriptPlayed("improvedPrice") /\ Unsettled) =>
        /\ OneTrade(50, 10)
        /\ Pos("a").yesTokens = 10 /\ Avail("a") = 9500
        /\ Avail("b") = 10000 - 1000 + 500
        /\ Pos("b").lockedCollateralYes = 10

\* C13, amended: the trade executes at the price of the order that rests.
\* With A's BUY posted first it executes at 0.60: A holds 10 YES and gets
\* no refund (availableUSD stays 94), B is credited 6.00 and has 10
\* collateral locked.  With B's SELL posted first it executes at 0.50: A
\* is charged 6.00 and refunded 1.00 (94 to 95), B is credited 5.00.
C13_ImprovedPriceForTaker ==
  /\ (script.name = "improvedPrice" /\ Len(orders) = 1 /\ cur = NoOrder) =>
        Avail("a") = 9400
  /\ (ScriptPlayed("improvedPrice") /\ Unsettled) =>
        /\ OneTrade(60, 10)
        /\ Pos("a").yesTokens = 10 /\ Avail("a") = 9400
        /\ Avail("b") = 10000 - 1000 + 600
        /\ Pos("b").lockedCollateralYes = 10
  /\ (script.name = "improvedPriceSellFirst" /\ Len(orders) = 2 /\ trades = <<>>) =>
        Avail("a") = 9400
  /\ (ScriptPlayed("improvedPriceSellFirst") /\ Unsettled) =>
        /\ OneTrade(50, 10)
        /\ Pos("a").yesTokens = 10 /\ Avail("a") = 9500
        /\ Avail("b") = 10000 - 1000 + 500
        /\ Pos("b").lockedCollateralYes = 10

\* Both orders of the improved-price scenario were handled, the SELL first.
C13_Witness ==
  /\ ScriptPlayed("improvedPriceSellFirst") /\ Unsettled
  /\ Len(trades) = 1 /\ orders[2].status = "FILLED"

StillLocked ==
  (Usd(InitialDeposit) - Avail("a"))
    - (Avail("b") - (Usd(InitialDeposit) - Usd(3)))
    - (Avail("c") - (Usd(InitialDeposit) - Usd(4)))

TwoTrades(p1, q1, p2, q2) ==
  /\ Len(trades) = 2
  /\ trades[1].price = p1 /\ trades[1].quantity = q1
  /\ trades[2].price = p2 /\ trades[2].quantity = q2

\* C15 as stated: A: BUY 10 YES @ 0.55, B: SELL 3 YES @ 0.50, C: SELL 4
\* YES @ 0.55, submitted in that order, give two trades, 3 @ 0.50 and
\* 4 @ 0.55; A's order is PARTIAL with filledQuantity 7 and 1.65 is still
\* locked for its unfilled 3.
C15_PartialFills ==
  (ScriptPlayed("partialFills") /\ Unsettled) =>
     /\ TwoTrades(50, 3, 55, 4)
     /\ orders[1].status = "PARTIAL" /\ orders[1].filledQuantity = 7
     /\ StillLocked = 165

\* C15, amended: submitted as listed, A's BUY is the resting order of both
\* trades, so they execute at A's 0.55: 3 @ 0.55 and 4 @ 0.55.  The trades
\* 3 @ 0.50 and 4 @ 0.55 are what the two SELLs give when they are posted
\* before A's BUY.  Either way A's order is PARTIAL with filledQuantity 7
\* and 1.65 is still locked for its unfilled 3.
C15_PartialFillsAtMakerPrice ==
  /\ (ScriptPlayed("partialFills") /\ Unsettled) =>
        /\ TwoTrades(55, 3, 55, 4)
        /\ orders[1].status = "PARTIAL" /\ orders[1].filledQuantity = 7
        /\ StillLocked = 165
  /\ (ScriptPlayed("partialFillsSellFirst") /\ Unsettled) =>
        /\ TwoTrades(50, 3, 55, 4)
        /\ orders[3].status = "PARTIAL" /\ orders[3].filledQuantity = 7
        /\ StillLocked = 165

\* The three orders of the partial-fill scenario were handled as listed
\* and A's order was filled twice.
C15_Witness ==
  /\ ScriptPlayed("partialFills") /\ Unsettled
  /\ Len(trades) = 2 /\ orders[1].filledQuantity = 7
  /\ orders[2].status = "FILLED" /\ orders[3].status = "FILLED"

\* The script was played to its end and the market settled at the outcome.
ScriptSettled(name, outcome) ==
  /\ ScriptPlayed(name)
  /\ marketDocs["m1"].settled /\ marketDocs["m1"].outcome = outcome

FinalUSD(a, b, c, d, e) ==
  /\ Avail("a") = a /\ Avail("b") = b /\ Avail("c") = c
  /\ Avail("d") = d /\ Avail("e") = e

\* C16: after A: BUY 10 YES @ 0.50, B: SELL 10 YES @ 0.50, B: SELL 5 NO @
\* 0.48, E: BUY 5 NO @ 0.48 and Settle(M, YES), availableUSD is A = 105.00,
\* B = 97.40, C = 100.00, D = 100.00, E = 97.60 and every position field of
\* every user in M is zero.
C16_SettlementWithForfeiture ==
  ScriptSettled("secondaryNo", "YES") =>
     /\ FinalUSD(10500, 9740, 10000, 10000, 9760)
     /\ \A u \in Traders : Pos(u) = newMarketBalance

\* The four orders traded twice and the market was settled YES.
C16_Witness ==
  /\ ScriptSettled("secondaryNo", "YES")
  /\ Len(trades) = 2 /\ trades[2].tokenType = "NO" /\ trades[2].quantity = 5

\* The script has run to its end: it exited on a rejected order, or posted
\* every order and settled the market.
ScriptEnded(name) ==
  /\ script.name = name /\ cur = NoOrder
  /\ \/ ~resp.success
     \/ Len(orders) = Len(script.orders) /\ marketDocs["m1"].settled

\* C17: the trading script of sixteen orders (trades 1-13), run with the
\* trader ids it builds and followed by settlement with outcome YES, ends
\* with availableUSD A = 109.00, B = 97.40, C = 98.25, D = 96.85 and
\* E = 98.50.
C17_TradingScriptBalances ==
  (ScriptEnded("tradingScript") /\ script.outcome = "YES") =>
     /\ resp.success
     /\ balances["TraderA"].availableUSD = 10900
     /\ balances["TraderB"].availableUSD = 9740
     /\ balances["TraderC"].availableUSD = 9825
     /\ balances["TraderD"].availableUSD = 9685
     /\ balances["TraderE"].availableUSD = 9850

\* The same sixteen orders posted for ids without upper-case letters do end
\* with the expected balances: the arithmetic of the script matches the
\* engine, the ids of the script do not match the order route.
TradingScriptLowerCaseBalances ==
  (ScriptEnded("tradingScriptLowerCase") /\ script.outcome = "YES") =>
     /\ resp.success /\ Len(trades) = 6
     /\ FinalUSD(10900, 9740, 9825, 9685, 9850)

TradingScriptLowerCaseSettled ==
  ScriptSettled("tradingScriptLowerCase", "YES")

\* A step of the order route that creates an order, and the order it creates.
Admits == Len(orders') = Len(orders) + 1
Admitted == orders'[Len(orders')]

\* A well-formed request of an existing user: it reaches the fund locking.
ReachesLocking(r) ==
  /\ r.signed /\ r.price >= 0 /\ r.price <= PriceScale /\ r.quantity > 0
  /\ balances[toLowerCase(r.userId)] # NoUser

\* The step answers an order request with the error.
Rejects(error) == resp' = Response("order", FALSE, error) /\ resp.success

Free(mb, t) == IF t = "YES" THEN mb.yesTokens ELSE mb.noTokens
LockedTokens(mb, t) == IF t = "YES" THEN mb.lockedYesTokens ELSE mb.lockedNoTokens
LockedCollateral(mb, t) ==
  IF t = "YES" THEN mb.lockedCollateralYes ELSE mb.lockedCollateralNo
OtherType(t) == IF t = "YES" THEN "NO" ELSE "YES"

\* C19: admitting a SELL of q tokens of type T by a user with `owned` free
\* T tokens moves min(q, owned) from the free to the locked T inventory
\* and, when q > owned, moves exactly q - owned from availableUSD to
\* lockedCollateralT, which needs availableUSD >= q - owned; nothing else
\* changes.  A SELL request with availableUSD < q - owned is rejected, and
\* the rejection creates no order and changes no field.
C19_SellAdmission ==
  /\ [][(Admits /\ Admitted.side = "SELL") =>
          LET o == Admitted
              u == o.userId
              t == o.tokenType
              q == o.quantity
              before == Position(balances[u], o.marketId)
              after == Position(balances'[u], o.marketId)
              owned == Free(before, t)
              fromInventory == Min(q, owned)
              short == q - fromInventory
          IN /\ Free(after, t) = owned - fromInventory
             /\ LockedTokens(after, t) = LockedTokens(before, t) + fromInventory
             /\ LockedCollateral(after, t) = LockedCollateral(before, t) + short
             /\ balances[u].availableUSD >= Usd(short)
             /\ balances'[u].availableUSD = balances[u].availableUSD - Usd(short)
             /\ Free(after, OtherType(t)) = Free(before, OtherType(t))
             /\ LockedTokens(after, OtherType(t)) = LockedTokens(before, OtherType(t))
             /\ LockedCollateral(after, OtherType(t)) =
                  LockedCollateral(before, OtherType(t))
             /\ \A m \in MarketIds \ {o.marketId} :
                  Position(balances'[u], m) = Position(balances[u], m)
             /\ \A v \in DOMAIN balances \ {u} : balances'[v] = balances[v]
             /\ o.filledQuantity = 0 /\ o.status = "OPEN"]_vars
  /\ [][(\E t \in TokenTypes :
           Rejects("Insufficient funds for short-selling " \o t \o " tokens")) =>
          UNCHANGED <<balances, orders, trades>>]_vars
  /\ [](\A r \in AdmissionRequests :
          (/\ r.side = "SELL" /\ ReachesLocking(r)
           /\ LET ub == balances[toLowerCase(r.userId)]
                  owned == Free(Position(ub, r.marketId), r.tokenType)
              IN r.quantity > owned /\ ub.availableUSD < Usd(r.quantity - owned)) =>
             LET adm == Admission(balances, orders, r)
             IN /\ adm.error =
                     "Insufficient funds for short-selling " \o r.tokenType \o " tokens"
                /\ adm.balances = balances /\ adm.orders = orders)

\* A SELL that took part of its quantity from the inventory and locked
\* collateral for the rest was admitted, and a later SELL was rejected for
\* insufficient funds.
C19_Witness ==
  /\ resp = Response("order", FALSE, "Insufficient funds for short-selling YES tokens")
  /\ \E i \in DOMAIN orders :
       LET mb == Position(balances[orders[i].userId], orders[i].marketId)
       IN /\ orders[i].side = "SELL" /\ orders[i].tokenType = "YES"
          /\ orders[i].status = "OPEN" /\ orders[i].quantity = 2
          /\ mb.lockedYesTokens = 1 /\ mb.lockedCollateralYes >= 1

\* A quantity counted in QuantityScale-ths that is a whole number of tokens.
PositiveInteger(quantity) == quantity > 0 /\ quantity % QuantityScale = 0
PriceInRange(price) == price >= 0 /\ price <= PriceScale
Affordable(r) == balances[toLowerCase(r.userId)].availableUSD >= r.price * r.quantity
Unchanged(adm) == adm.balances = balances /\ adm.orders = orders

\* C20 as stated: an order at price 0 or price 1 is admitted (its funds
\* being there); an order with price < 0 or price > 1 is rejected, and so
\* is an order whose quantity is not a positive integer, with no order
\* created and no balance changed.
C20_InvalidOrdersRejected ==
  \A r \in FractionRequests :
    LET adm == Admission(balances, orders, r)
    IN /\ (r.price \in {0, PriceScale} /\ PositiveInteger(r.quantity) /\ Affordable(r)) =>
            /\ adm.error = ""
            /\ Len(adm.orders) = Len(orders) + 1
       /\ ~PriceInRange(r.price) =>
            adm.error = "Price must be between 0 and 1." /\ Unchanged(adm)
       /\ (PriceInRange(r.price) /\ ~PositiveInteger(r.quantity)) =>
            adm.error = "Quantity must be > 0." /\ Unchanged(adm)

\* What the route does check: the price is in [0, 1] and the quantity is
\* above zero.  An order with a positive quantity that is not a whole
\* number is admitted like any other.
OnlySignCheckedOnQuantity ==
  \A r \in FractionRequests :
    LET adm == Admission(balances, orders, r)
    IN /\ (r.price \in {0, PriceScale} /\ r.quantity > 0 /\ Affordable(r)) =>
            /\ adm.error = ""
            /\ Len(adm.orders) = Len(orders) + 1
       /\ ~PriceInRange(r.price) =>
            adm.error = "Price must be between 0 and 1." /\ Unchanged(adm)
       /\ (PriceInRange(r.price) /\ r.quantity <= 0) =>
            adm.error = "Quantity must be > 0." /\ Unchanged(adm)

\* An order for half a token was created and its funds were taken.
FractionalOrderAdmitted ==
  \E i \in DOMAIN orders :
    /\ ~PositiveInteger(orders[i].quantity) /\ orders[i].price > 0
    /\ balances[orders[i].userId].availableUSD < InitialUSD * QuantityScale

\* The height last recorded for the user on the chain of the call, if any.
HasRecordedHeight(c) ==
  /\ balances[toLowerCase(c.userId)] # NoUser
  /\ c.transaction.chainId \in DOMAIN balances[toLowerCase(c.userId)].lastBlockIndexed
RecordedHeight(c) ==
  balances[toLowerCase(c.userId)].lastBlockIndexed[c.transaction.chainId]
AfterDeposit(c) ==
  processUserDeposit(balances, c.userId, c.transaction.chainId,
                     c.depositAmountInUSD, c.transaction)

\* C21: a processUserDeposit call whose block height is at most the height
\* last recorded for its user and chain leaves the collection unchanged.
C21_DepositIdempotent ==
  \A c \in DepositCalls :
    (/\ HasRecordedHeight(c)
     /\ parseInt(c.transaction.blockHeight) <= RecordedHeight(c)) =>
       AfterDeposit(c) = balances

\* What the guard gives: the same, for a recorded height other than 0.
DepositIdempotentAboveZero ==
  \A c \in DepositCalls :
    (/\ HasRecordedHeight(c) /\ RecordedHeight(c) # 0
     /\ parseInt(c.transaction.blockHeight) <= RecordedHeight(c)) =>
       AfterDeposit(c) = balances

\* The same transaction at height "0" was credited twice to one user.
DepositCreditedTwice ==
  \E u \in Users :
    /\ balances[u] # NoUser
    /\ Len(balances[u].transactions) = 2
    /\ balances[u].transactions[1] = balances[u].transactions[2]
    /\ balances[u].availableUSD = 2 * Usd(1)

\* executeTrade as handler p is about to call it, on the documents it fetched.
ExecuteTradeOf(p) ==
  LET me == procs[p]
      inc == me.incomingOrder
  IN executeTrade(me.buyerBal, me.sellerBal, inc.marketId, inc.tokenType,
                  me.bestOpposingOrder.price, me.matchQty,
                  IF inc.side = "BUY" THEN inc.price ELSE me.bestOpposingOrder.price)

\* Handler p calls executeTrade, which finds the seller's locked collateral
\* below the quantity to short and returns.
FailedFill(p) ==
  /\ At(p, "saveBalances") /\ ~ExecuteTradeOf(p).saved
  /\ procs'[p] # procs[p]

TradesOf(trds, buyOrderId, sellOrderId) ==
  {i \in DOMAIN trds : trds[i].buyOrderId = buyOrderId /\ trds[i].sellOrderId = sellOrderId}

\* C22: when executeTrade finds the seller's locked collateral below the
\* quantity to short, the fill leaves nothing behind: no Trade record of
\* the two orders, both orders with the filledQuantity and status they had
\* before the fill, no balance changed, and the matching loop over.
C22_FailedFillLeavesNothing ==
  [][\A p \in Procs : FailedFill(p) =>
       LET me == procs[p]
           inc == me.incomingOrder
           best == me.bestOpposingOrder
           buyOrderId == IF inc.side = "BUY" THEN inc.orderId ELSE best.orderId
           sellOrderId == IF inc.side = "SELL" THEN inc.orderId ELSE best.orderId
       IN /\ TradesOf(trades', buyOrderId, sellOrderId) = {}
          /\ orders'[best.orderId].filledQuantity = best.filledQuantity
          /\ orders'[best.orderId].status = best.status
          /\ orders'[inc.orderId].filledQuantity = inc.filledQuantity - me.matchQty
          /\ balances' = balances
          /\ procs'[p].pc = "done"]_vars

\* What does hold of a failed fill: executeTrade saves nothing.
FailedFillSavesNoBalance ==
  [][\A p \in Procs : FailedFill(p) => balances' = balances]_vars

\* A fill failed on the seller's collateral, and its Trade record and the
\* two FILLED orders are there.
FailedFillRecorded ==
  \E p \in Procs :
    /\ At(p, "saveBalances") /\ ~ExecuteTradeOf(p).saved
    /\ LET inc == procs[p].incomingOrder
           best == procs[p].bestOpposingOrder
       IN /\ Len(trades) > 0
          /\ orders[inc.orderId].status = "FILLED"
          /\ orders[best.orderId].filledQuantity > best.filledQuantity

\* Handler p is in settleMarket, a save of a user's balance fails and
\* settleMarket throws.
SettleFails(p) ==
  /\ At(p, "saveUsers")
  /\ procs'[p].pc = "done" /\ procs'[p].error = "VersionError"

\* No other handler of the run is a settlement.
OnlySettlement(p) ==
  \A q \in Procs \ {p} : procs[q].pc = "idle" \/ procs[q].req.kind = "order"

\* C23: when settleMarket fails after it has started, nothing of it
\* persists: no order is left CANCELLED, no user's balance or position is
\* changed by the saves that did succeed, and the market is unsettled.
C23_SettlementAllOrNothing ==
  [][\A p \in Procs : (SettleFails(p) /\ OnlySettlement(p)) =>
       LET marketId == procs[p].req.marketId
       IN /\ \A i \in OrdersIn(orders', marketId) : orders'[i].status # "CANCELLED"
          /\ balances' = balances
          /\ ~marketDocs'[marketId].settled]_vars

\* What does hold of a failed settlement: the market stays unsettled.
FailedSettlementLeavesMarketOpen ==
  [][\A p \in Procs : (SettleFails(p) /\ OnlySettlement(p)) =>
       ~marketDocs'[procs[p].req.marketId].settled]_vars

\* A settlement has failed on a user's balance and an order it cancelled
\* is still CANCELLED.
FailedSettlementCancelled ==
  \E p \in Procs :
    /\ procs[p].pc = "done" /\ procs[p].req.kind = "settle"
    /\ procs[p].error = "VersionError" /\ OnlySettlement(p)
    /\ ~marketDocs[procs[p].req.marketId].settled
    /\ \E i \in DOMAIN orders : orders[i].status = "CANCELLED"

(***************************************************************************)
(* verifySignature and the order route behind it                           *)
(***************************************************************************)
Chains == {"solana", "xion-testnet-1", "sonicBlazeTestnet", "ethereum"}

\* The bodies sent to POST /api/order: an order, the chain, what the body
\* lacks (nothing, the signature, or the price) and whether the signature
\* verifies against the message built from the order.
SignedRequests ==
  [order : {r \in OrderRequests :
              r.signed /\ r.marketId = "m1" /\ r.tokenType = "YES"},
   chainId : Chains, missing : {"none", "signature", "price"},
   verifies : BOOLEAN]

\* The middleware: the error of its 400 response, or "" when it calls next().
verifySignature(a) ==
  IF a.missing = "signature" THEN "Missing required fields"
  ELSE IF a.chainId = "solana"
  THEN IF a.missing = "price"
       THEN "Missing order parameters required for signature generation."
       ELSE IF ~a.verifies THEN "Invalid signature." ELSE ""
  ELSE IF a.chainId = "xion-testnet-1"
  THEN IF a.missing = "price"
       THEN "Missing parameters required for Xion signature verification."
       ELSE IF ~a.verifies THEN "Invalid Xion signature." ELSE ""
  ELSE IF a.chainId = "sonicBlazeTestnet" THEN ""
  ELSE "Unsupported chain."

\* The route on a body without price: price < 0 and price > 1 are both false
\* of undefined, so the route goes on. A BUY computes price * quantity = NaN,
\* which the save of the balance refuses; a SELL locks tokens and collateral
\* without the price, saves, and Order.create then refuses the order.
OrderWithoutPrice(bals, ords, r) ==
  LET Reject(msg) == [error |-> msg, balances |-> bals, orders |-> ords]
      userId == toLowerCase(r.userId)
  IN
  IF r.quantity <= 0 THEN Reject("Quantity must be > 0.")
  ELSE IF bals[userId] = NoUser THEN Reject("User not found.")
  ELSE IF r.side = "BUY" THEN Reject("UserBalance validation failed")
  ELSE LET locked == LockFunds(bals[userId], r.marketId, r.side,
                               r.tokenType, 0, r.quantity)
       IN IF locked.error # "" THEN Reject(locked.error)
          ELSE [error |-> "Order validation failed",
                balances |-> [bals EXCEPT ![userId] = locked.doc],
                orders |-> ords]

\* The middleware and the route up to the call of matchOrders.
PostOrder(bals, ords, a) ==
  IF verifySignature(a) # ""
  THEN [error |-> verifySignature(a), balances |-> bals, orders |-> ords]
  ELSE IF a.missing = "price" THEN OrderWithoutPrice(bals, ords, a.order)
  ELSE Admission(bals, ords, a.order)

PostOrderCreated(a) ==
  /\ Idle
  /\ Len(orders) < MaxRespOrders
  /\ LET res == PostOrder(balances, orders, a)
     IN /\ res.error = ""
        /\ balances' = res.balances
        /\ orders' = res.orders
        /\ cur' = [orderId |-> Len(res.orders),
                   remainingQty |-> a.order.quantity, stillOpen |-> TRUE]
  /\ UNCHANGED concVars
  /\ UNCHANGED <<marketDocs, trades, minted, transfers, resp>>

PostOrderFailed(a) ==
  /\ Idle
  /\ LET res == PostOrder(balances, orders, a)
     IN /\ res.error # ""
        /\ balances' = res.balances
        /\ resp' = Response("order", FALSE, res.error)
  /\ UNCHANGED concVars
  /\ UNCHANGED <<marketDocs, orders, trades, minted, cur, transfers>>

NextSigned ==
  \/ \E a \in SignedRequests : PostOrderCreated(a)
  \/ \E a \in SignedRequests : PostOrderFailed(a)
  \/ MatchIteration
  \/ MatchReturn

\* The order route behind its middleware.
SpecSigned == Init /\ [][NextSigned]_vars

\* The request fails validation: a field is missing, or the price or the
\* quantity is out of range.
FailsValidation(a) ==
  \/ a.missing # "none"
  \/ a.order.price < 0 \/ a.order.price > PriceScale
  \/ a.order.quantity <= 0

\* The request fails authorization: its chain is not supported, or its
\* chain verifies signatures and the signature does not verify.
FailsAuthorization(a) ==
  \/ a.chainId \notin {"solana", "xion-testnet-1", "sonicBlazeTestnet"}
  \/ a.chainId \in {"solana", "xion-testnet-1"} /\ ~a.verifies

\* C24: a request that fails validation or authorization is rejected
\* before any locking: it creates no order and changes no balance or
\* position (no trade is made before matchOrders, which it never reaches).
C24_RejectedBeforeLocking ==
  Idle =>
    \A a \in SignedRequests :
      (FailsValidation(a) \/ FailsAuthorization(a)) =>
        LET res == PostOrder(balances, orders, a)
        IN /\ res.error # ""
           /\ res.orders = orders
           /\ res.balances = balances

\* What does hold: a request that the middleware or the route's own checks
\* of price and quantity turn down changes nothing, and no failing request
\* creates an order.
TurnedDown(a) ==
  \/ verifySignature(a) # ""
  \/ a.missing = "none" /\ (a.order.price < 0 \/ a.order.price > PriceScale)
  \/ a.order.quantity <= 0

RejectedByChecksUnchanged ==
  Idle =>
    \A a \in SignedRequests :
      LET res == PostOrder(balances, orders, a)
      IN /\ TurnedDown(a) => (res.error # "" /\ res.balances = balances)
         /\ (FailsValidation(a) \/ FailsAuthorization(a)) =>
              (res.error # "" /\ res.orders = orders)

\* A SELL without price has been refused by Order.create after its
\* collateral was locked and saved: collateral is locked and no order exists.
LockedWithoutOrder ==
  /\ resp.error = "Order validation failed"
  /\ orders = <<>>
  /\ \E u \in Users :
       Position(balances[u], "m1").lockedCollateralYes > 0

\* The status that agrees with an order's fill.
StatusOfFill(o) ==
  IF o.filledQuantity = o.quantity THEN "FILLED"
  ELSE IF o.filledQuantity > 0 THEN "PARTIAL" ELSE "OPEN"

\* The resting order of the fill that the step makes.
Maker ==
  LET trade == trades'[Len(trades')]
  IN IF trade.buyOrderId = cur.orderId THEN trade.sellOrderId
     ELSE trade.buyOrderId

\* C25: every order has 0 <= filledQuantity <= quantity and, unless it is
\* cancelled, a status that agrees with its fill (FILLED iff filled =
\* quantity, PARTIAL iff 0 < filled < quantity, OPEN iff filled = 0); a
\* taker whose quantity equals the maker's available quantity leaves both
\* FILLED, a smaller taker leaves the maker PARTIAL with its filledQuantity
\* raised by the taker's quantity.
C25_FillWithinQuantity ==
  /\ [](\A i \in DOMAIN orders :
          /\ 0 <= orders[i].filledQuantity
          /\ orders[i].filledQuantity <= orders[i].quantity
          /\ orders[i].status # "CANCELLED" =>
               orders[i].status = StatusOfFill(orders[i]))
  /\ [][Fills =>
          LET taker == cur.orderId
              available == Unfilled(orders[Maker])
          IN /\ cur.remainingQty = available =>
                  /\ orders'[taker].status = "FILLED"
                  /\ orders'[Maker].status = "FILLED"
             /\ cur.remainingQty < available =>
                  /\ orders'[taker].status = "FILLED"
                  /\ orders'[Maker].status = "PARTIAL"
                  /\ orders'[Maker].filledQuantity =
                       orders[Maker].filledQuantity + cur.remainingQty]_vars

\* A taker smaller than the resting order has been matched: the maker is
\* PARTIAL and the taker FILLED.
C25_Witness ==
  /\ cur = NoOrder
  /\ \E i, j \in DOMAIN orders :
       /\ orders[i].status = "PARTIAL" /\ orders[i].filledQuantity = 1
       /\ orders[i].quantity = 2
       /\ orders[j].status = "FILLED" /\ orders[j].quantity = 1
       /\ \E k \in DOMAIN trades :
            {trades[k].buyOrderId, trades[k].sellOrderId} = {i, j}

\* The users that have a balance document.
Holders(bals) == {u \in DOMAIN bals : bals[u] # NoUser}

OutcomePays(m, outcome) ==
  IF outcome = "YES"
  THEN Usd(m.yesTokens + m.lockedYesTokens + m.lockedCollateralNo)
  ELSE Usd(m.noTokens + m.lockedNoTokens + m.lockedCollateralYes)

PaidOut(u, marketId) ==
  LET buys == {i \in OrdersIn(orders, marketId) :
                 /\ orders[i].status \in {"OPEN", "PARTIAL"}
                 /\ orders[i].side = "BUY" /\ orders[i].userId = u}
  IN balances'[u].availableUSD - balances[u].availableUSD
       - SumOver(buys, [i \in buys |-> Unfilled(orders[i]) * orders[i].price])

\* C28: the payout rule. With outcome YES a user is credited 1 USD for each
\* of yesTokens + lockedYesTokens + lockedCollateralNo; the NO tokens and
\* lockedCollateralYes pay nothing and are gone from the record. With
\* outcome NO it is the other way round.
C28_PayoutRule ==
  [][\A marketId \in MarketIds : Settles(marketId) =>
       \A u \in Holders(balances) :
         LET m == Position(balances[u], marketId)
             after == Position(balances'[u], marketId)
         IN /\ marketDocs'[marketId].outcome = "YES" =>
                 PaidOut(u, marketId) =
                   Usd(m.yesTokens) + Usd(m.lockedYesTokens) + Usd(m.lockedCollateralNo)
            /\ marketDocs'[marketId].outcome = "NO" =>
                 PaidOut(u, marketId) =
                   Usd(m.noTokens) + Usd(m.lockedNoTokens) + Usd(m.lockedCollateralYes)
            /\ after.yesTokens = 0 /\ after.noTokens = 0
            /\ after.lockedYesTokens = 0 /\ after.lockedNoTokens = 0
            /\ after.lockedCollateralYes = 0 /\ after.lockedCollateralNo = 0]_vars

\* The first market was settled YES after a short sale of YES was filled:
\* the short seller, whose collateral and NO token paid nothing, has less
\* than at the start, and the buyer, whose YES token paid 1 USD, has more.
C28_Witness ==
  /\ marketDocs["m1"].settled /\ marketDocs["m1"].outcome = "YES"
  /\ minted["m1"]["YES"] > 0
  /\ \E u \in Users : Avail(u) > InitialUSD
  /\ \E u \in Users : Avail(u) < InitialUSD

\* The user is the seller of a fill in the market: none of the collateral of
\* a user who is not backs a filled short sale.
SoldIn(u, marketId) ==
  \E k \in TradesIn(trades, marketId) :
    orders[trades[k].sellOrderId].userId = u

\* C29: when settlement cancels an OPEN or PARTIAL short SELL order, the
\* collateral locked for its unfilled remainder is returned to the seller,
\* so that the payout sees only collateral against filled shorts. For a user
\* none of whose SELL orders was filled, all collateral is of that kind:
\* settlement pays them their winning tokens and all their collateral.
C29_UnfilledCollateralReturned ==
  [][\A marketId \in MarketIds : Settles(marketId) =>
       \A u \in Holders(balances) : ~SoldIn(u, marketId) =>
         LET m == Position(balances[u], marketId)
             winning == IF marketDocs'[marketId].outcome = "YES"
                        THEN m.yesTokens + m.lockedYesTokens
                        ELSE m.noTokens + m.lockedNoTokens
         IN PaidOut(u, marketId) =
              Usd(winning) + Usd(m.lockedCollateralYes + m.lockedCollateralNo)]_vars

\* What does hold: the collateral of an unfilled short comes back only with
\* the payout of the outcome, when the token it was locked for loses.
UnfilledCollateralPaidByOutcome ==
  [][\A marketId \in MarketIds : Settles(marketId) =>
       \A u \in Holders(balances) : ~SoldIn(u, marketId) =>
         PaidOut(u, marketId) =
           OutcomePays(Position(balances[u], marketId),
                       marketDocs'[marketId].outcome)]_vars

\* A market was settled YES without a single fill, and a user whose short
\* SELL of YES was cancelled has less money than at the start.
UnfilledShortForfeited ==
  /\ marketDocs["m1"].settled /\ marketDocs["m1"].outcome = "YES"
  /\ trades = <<>>
  /\ \A i \in DOMAIN orders : orders[i].marketId = "m1"
  /\ \E i \in DOMAIN orders :
       /\ orders[i].side = "SELL" /\ orders[i].tokenType = "YES"
       /\ orders[i].status = "CANCELLED"
       /\ Avail(orders[i].userId) < InitialUSD

(***************************************************************************)
(* matchOrders on a given book                                             *)
(***************************************************************************)
\* The orders that rest in the book: short SELL orders of YES by user a.
RestingRequests ==
  {r \in OrderRequests :
     /\ r.signed /\ r.userId = "a" /\ r.marketId = "m1"
     /\ r.side = "SELL" /\ r.tokenType = "YES"
     /\ r.price \in Prices /\ r.quantity > 0}

\* The orders matched against the book: orders of YES by user b.
TakerRequests ==
  {r \in OrderRequests :
     /\ r.signed /\ r.userId = "b" /\ r.marketId = "m1"
     /\ r.tokenType = "YES" /\ r.price \in Prices /\ r.quantity > 0}

\* The book after the admission of r1 and r2, where the order numbered
\* anomaly, if there is one, has the bookkeeping anomaly that matchOrders
\* looks for: it is OPEN with nothing left to fill.
Book(r1, r2, anomaly) ==
  LET first == Admission(InitDb.balances, <<>>, r1)
      second == Admission(first.balances, first.orders, r2)
      ords == IF anomaly \in DOMAIN second.orders
              THEN [second.orders EXCEPT
                      ![anomaly].filledQuantity = second.orders[anomaly].quantity]
              ELSE second.orders
  IN Db(second.balances, ords, <<>>, InitDb.minted, InitDb.marketDocs)

Books == {Book(r1, r2, k) : r1 \in RestingRequests, r2 \in RestingRequests, k \in 0 .. 2}

InitMatch == \E book \in Books : InitFrom(book)

NextMatch ==
  \/ \E r \in TakerRequests : SubmitOrder(r, MaxOrders)
  \/ MatchIteration
  \/ MatchReturn

\* One order is matched against each book. The handler is an async function
\* whose awaits all resolve: an iteration or the return that can be taken
\* is taken.
SpecMatch ==
  InitMatch /\ [][NextMatch]_vars
  /\ WF_vars(MatchIteration) /\ WF_vars(MatchReturn)

\* The step is an iteration of the loop of matchOrders.
Iterates == cur # NoOrder /\ cur' # NoOrder /\ orders' # orders

\* C30: matchOrders terminates on every book. Each iteration of its loop
\* either lowers the taker's remaining quantity by a fill of positive
\* quantity, or marks FILLED an opposing order with no available quantity,
\* which is then not selected again; and when it returns the taker's status
\* is FILLED, PARTIAL or OPEN.
C30_MatchOrdersTerminates ==
  /\ (cur # NoOrder) ~> (cur = NoOrder)
  /\ [][Iterates =>
          \/ /\ Fills
             /\ Fill.quantity > 0
             /\ cur'.remainingQty = cur.remainingQty - Fill.quantity
          \/ /\ cur'.remainingQty = cur.remainingQty
             /\ \E i \in Opposing(orders, orders[cur.orderId]) :
                  /\ Unfilled(orders[i]) <= 0
                  /\ orders'[i].status = "FILLED"
                  /\ i \notin Opposing(orders', orders'[cur.orderId])]_vars
  /\ [][(cur # NoOrder /\ cur' = NoOrder) =>
          orders'[cur.orderId].status \in {"FILLED", "PARTIAL", "OPEN"}]_vars

\* matchOrders has returned after it marked an order with no available
\* quantity FILLED, which no trade mentions, and filled the taker from the
\* other resting order.
C30_Witness ==
  /\ cur = NoOrder
  /\ Len(orders) = 3 /\ trades # <<>>
  /\ orders[3].status \in {"FILLED", "PARTIAL"}
  /\ \E i \in 1 .. 2 :
       /\ orders[i].status = "FILLED"
       /\ \A k \in DOMAIN trades :
            i \notin {trades[k].buyOrderId, trades[k].sellOrderId}

\* availableUSD of all users, in cents.
TotalAvailable(bals) ==
  SumOver(Holders(bals), [u \in Holders(bals) |-> bals[u].availableUSD])

\* The step is the settlement of the one market that was traded: every order
\* is of that market and no market was settled before.
SettlesTheOnlyMarket(marketId) ==
  /\ Settles(marketId)
  /\ \A m \in MarketIds : ~marketDocs[m].settled
  /\ \A i \in DOMAIN orders : orders[i].marketId = marketId

\* C31: money is conserved over the life of a market. After deposits,
\* admissions and fills in a market and its settlement with either outcome,
\* without withdrawals, the availableUSD of all users sums to the amounts
\* deposited.
C31_MoneyConserved ==
  [][\A marketId \in MarketIds : SettlesTheOnlyMarket(marketId) =>
       TotalAvailable(balances') = Cardinality(Users) * InitialUSD]_vars

\* What does hold: settlement changes the total by the winning tokens it
\* pays less the collateral of the winning token's short sales that it keeps.
SettlementPaysTokensKeepsCollateral ==
  [][\A marketId \in MarketIds : SettlesTheOnlyMarket(marketId) =>
       LET yes == marketDocs'[marketId].outcome = "YES"
           paid == IF yes THEN SumField(balances, marketId, YesSupply)
                   ELSE SumField(balances, marketId, NoSupply)
           kept == IF yes THEN SumField(balances, marketId, CollateralYes)
                   ELSE SumField(balances, marketId, CollateralNo)
           buys == {i \in DOMAIN orders : Active(orders[i]) /\ orders[i].side = "BUY"}
           refunds == SumOver(buys, [i \in buys |->
                                Unfilled(orders[i]) * orders[i].price])
       IN TotalAvailable(balances') =
            Money(balances) + refunds + Usd(paid) - Usd(kept)]_vars

\* A market was settled NO after one short sale of YES was filled and
\* nothing else: the users hold more money than was deposited.
MoneyCreated ==
  /\ marketDocs["m1"].settled /\ marketDocs["m1"].outcome = "NO"
  /\ Len(orders) = 2 /\ Len(trades) = 1
  /\ \A i \in DOMAIN orders : orders[i].status = "FILLED" /\ orders[i].marketId = "m1"
  /\ TotalAvailable(balances) > Cardinality(Users) * InitialUSD

\* A market was settled YES with an unfilled short SELL of YES and nothing
\* else: the users hold less money than was deposited.
MoneyDestroyed ==
  /\ marketDocs["m1"].settled /\ marketDocs["m1"].outcome = "YES"
  /\ Len(orders) = 1 /\ trades = <<>>
  /\ orders[1].status = "CANCELLED" /\ orders[1].marketId = "m1"
  /\ TotalAvailable(balances) < Cardinality(Users) * InitialUSD

\* C32: in every reachable state of an unsettled market the YES supply
\* equals the NO supply: the sum over users of yesTokens + lockedYesTokens
\* equals the sum over users of noTokens + lockedNoTokens.
C32_YesSupplyEqualsNoSupply ==
  \A m \in MarketIds :
    ~marketDocs[m].settled =>
      SumField(balances, m, YesSupply) = SumField(balances, m, NoSupply)

\* No settlement was requested, every handler has answered, and the buyer
\* of a short sale holds a YES token whose NO token the seller never got.
MintedWithoutOpposite ==
  /\ \A p \in Procs : procs[p].pc = "done" /\ procs[p].req.kind = "order"
  /\ ~marketDocs["m1"].settled
  /\ SumField(balances, "m1", YesSupply) > SumField(balances, "m1", NoSupply)

\* The quantity of all Trade records that reference the order.
TradedQuantity(i) ==
  LET mine == {k \in DOMAIN trades : i \in {trades[k].buyOrderId, trades[k].sellOrderId}}
  IN SumOver(mine, [k \in mine |-> trades[k].quantity])

\* C33: no order is over-filled when takers match at the same time: once
\* the handlers have answered, the Trade records that reference an order
\* sum to its filledQuantity, which is at most its quantity.
C33_NoOverFill ==
  Quiescent =>
    \A i \in DOMAIN orders :
      /\ TradedQuantity(i) = orders[i].filledQuantity
      /\ TradedQuantity(i) <= orders[i].quantity

\* What does hold: filledQuantity itself stays within quantity.
FilledWithinQuantity ==
  \A i \in DOMAIN orders : orders[i].filledQuantity <= orders[i].quantity

\* Two order handlers have answered and the trades of one order sum to more
\* than its quantity.
OverFilled ==
  /\ \A p \in Procs : procs[p].pc = "done" /\ procs[p].req.kind = "order"
  /\ \E i \in DOMAIN orders : TradedQuantity(i) > orders[i].quantity

\* The orders and trades made since the requests were sent.
NewOrders == {i \in DOMAIN orders : i > Len(base.orders)}
NewTrades == {k \in DOMAIN trades : k > Len(base.trades)}

\* availableUSD plus locked collateral of the user, which the locking of a
\* SELL order leaves as it is.
Funds(bals, u) ==
  bals[u].availableUSD
  + SumOver(MarketIds, [m \in MarketIds |-> Usd(Collateral(Position(bals[u], m)))])

\* What the user's new BUY orders locked.
BuyLocks(u) ==
  LET mine == {i \in NewOrders : orders[i].userId = u /\ orders[i].side = "BUY"}
  IN SumOver(mine, [i \in mine |-> orders[i].price * orders[i].quantity])

\* What the new fills credit to the user: the payment when they sell, the
\* price improvement when they buy.
FillCredits(u) ==
  SumOver(NewTrades,
    [k \in NewTrades |->
       (IF orders[trades[k].sellOrderId].userId = u
        THEN trades[k].price * trades[k].quantity ELSE 0)
       + (IF orders[trades[k].buyOrderId].userId = u
          THEN RefundAmount(orders[trades[k].buyOrderId].price,
                            trades[k].price, trades[k].quantity)
          ELSE 0)])

\* Only orders were sent.
OrdersOnly == \A p \in Procs : procs[p].pc = "idle" \/ procs[p].req.kind = "order"

\* C34: no update of a user's balance is lost. When concurrent order
\* handlers have answered, each user's money reflects every operation: what
\* they had, less the lock of each order of theirs that was admitted, plus
\* the credit of each fill that was made for them.
C34_NoLostUpdate ==
  (Quiescent /\ OrdersOnly) =>
    \A u \in Users :
      Funds(balances, u) = Funds(base.balances, u) - BuyLocks(u) + FillCredits(u)

\* What does hold: no lock is lost. A user's money is never above what the
\* admitted orders and the fills account for.
NoLockLost ==
  (Quiescent /\ OrdersOnly) =>
    \A u \in Users :
      Funds(balances, u) <= Funds(base.balances, u) - BuyLocks(u) + FillCredits(u)

\* Two order handlers have answered, and a user has less money than their
\* orders and fills account for: the credit of a fill was lost.
FillCreditLost ==
  /\ \A p \in Procs : procs[p].pc = "done" /\ procs[p].req.kind = "order"
  /\ \E u \in Users :
       Funds(balances, u) < Funds(base.balances, u) - BuyLocks(u) + FillCredits(u)

\* C35: an order admission that interleaves with settleMarket strands
\* nothing. Once the market is settled and the handlers have answered, no
\* order of the market is OPEN or PARTIAL and no user has tokens or
\* collateral locked in it.
C35_NothingStranded ==
  \A m \in MarketIds :
    (Quiescent /\ marketDocs[m].settled) =>
      /\ \A i \in OrdersIn(orders, m) : ~Active(orders[i])
      /\ \A u \in Holders(balances) :
           LET pos == Position(balances[u], m)
           IN /\ pos.lockedYesTokens = 0 /\ pos.lockedNoTokens = 0
              /\ pos.lockedCollateralYes = 0 /\ pos.lockedCollateralNo = 0

\* An order was sent together with the settlement of its market: both
\* handlers have answered without error, the market is settled, and the
\* order rests OPEN with its collateral locked.
StrandedOrder ==
  /\ \A p \in Procs : procs[p].pc = "done" /\ procs[p].error = ""
  /\ \E p \in Procs : procs[p].req.kind = "settle"
  /\ marketDocs["m1"].settled
  /\ \E i \in NewOrders :
       /\ orders[i].marketId = "m1" /\ orders[i].status = "OPEN"
       /\ orders[i].side = "SELL"
       /\ Collateral(Position(balances[orders[i].userId], "m1")) > 0

\* What does hold: the orders that were in the book before the requests
\* were sent are not left OPEN or PARTIAL by a completed settlement.
EarlierOrdersClosed ==
  (Quiescent /\ marketDocs["m1"].settled) =>
    \A i \in DOMAIN base.orders : ~Active(orders[i])

\* Both requests are settlements of the first market.
TwoSettlements ==
  \A p \in Procs : procs[p].pc = "done" /\ procs[p].req.kind = "settle"
                   /\ procs[p].req.marketId = "m1"

\* C36: two concurrent settleMarket calls on one unsettled market pay out
\* at most once. When both have answered and the market is settled, every
\* user's availableUSD is what a single settlement of the market gives, with
\* the outcome that the market records.
C36_SettledOnce ==
  (TwoSettlements /\ marketDocs["m1"].settled) =>
    LET once == settleMarket(base.balances, base.orders, base.marketDocs,
                             "m1", marketDocs["m1"].outcome)
    IN \A u \in Users : balances[u].availableUSD = once.balances[u].availableUSD

\* What does hold: the tokens and the collateral are paid once, under one
\* of the outcomes; only the refund of a user's cancelled BUY orders may be
\* paid twice or not at all.
TokensPaidOnce ==
  (TwoSettlements /\ marketDocs["m1"].settled) =>
    \E outcome \in Outcomes :
      LET once == settleMarket(base.balances, base.orders, base.marketDocs,
                               "m1", outcome)
      IN \A u \in Users :
           balances[u].availableUSD - once.balances[u].availableUSD \in
             {0 - buyRefunds(base.orders, "m1", u), 0,
              buyRefunds(base.orders, "m1", u)}

\* Two settlements have answered with success, and a user with a cancelled
\* BUY order has more than a single settlement gives under either outcome.
RefundedTwice ==
  /\ TwoSettlements /\ \A p \in Procs : procs[p].error = ""
  /\ \E u \in Users :
       \A outcome \in Outcomes :
         balances[u].availableUSD >
           settleMarket(base.balances, base.orders, base.marketDocs,
                        "m1", outcome).balances[u].availableUSD

\* Two settlements have answered with success, and the market records the
\* outcome whose payouts were not applied.
OutcomeNotTheOnePaid ==
  /\ TwoSettlements /\ \A p \in Procs : procs[p].error = ""
  /\ marketDocs["m1"].settled
  /\ \E outcome \in Outcomes \ {marketDocs["m1"].outcome} :
       /\ balances = settleMarket(base.balances, base.orders, base.marketDocs,
                                  "m1", outcome).balances
       /\ balances # settleMarket(base.balances, base.orders, base.marketDocs,
                                  "m1", marketDocs["m1"].outcome).balances

\* ---------------------------------------------------------------------
\* Deposit events and the height guard
\* ---------------------------------------------------------------------

\* The deposit events already pushed to the user's transactions, by hash
\* and chain.
RecordedEvents(u) ==
  IF balances[u] = NoUser THEN {}
  ELSE {<<balances[u].transactions[i].txHash, balances[u].transactions[i].chainId>> :
          i \in 1..Len(balances[u].transactions)}

\* A call for a deposit event the user's record does not hold yet.
NewEvent(c) ==
  /\ balances[toLowerCase(c.userId)] # NoUser
  /\ <<c.transaction.txHash, c.transaction.chainId>> \notin
       RecordedEvents(toLowerCase(c.userId))

Credited(c) ==
  AfterDeposit(c)[toLowerCase(c.userId)].availableUSD =
    balances[toLowerCase(c.userId)].availableUSD + Usd(c.depositAmountInUSD)

\* C37: every distinct deposit event of a user on a chain is credited to
\* availableUSD: a processUserDeposit call for an event that the user's
\* record does not hold yet adds its amount, whatever its block height,
\* the same block as an earlier deposit or a lower one included.
C37_EveryDepositCredited ==
  \A c \in DepositCalls : NewEvent(c) => Credited(c)

\* What holds: a new event above the height recorded for its chain, or on
\* a chain with no height recorded, is credited.
DepositAboveRecordedCredited ==
  \A c \in DepositCalls :
    (/\ NewEvent(c)
     /\ HasRecordedHeight(c) => parseInt(c.transaction.blockHeight) > RecordedHeight(c)) =>
       Credited(c)

\* A second deposit of the block of the one already recorded is skipped.
SameBlockDepositSkipped ==
  \E c \in DepositCalls :
    /\ NewEvent(c) /\ HasRecordedHeight(c)
    /\ RecordedHeight(c) # 0
    /\ parseInt(c.transaction.blockHeight) = RecordedHeight(c)
    /\ AfterDeposit(c) = balances

\* A deposit of a block below the one already recorded is skipped.
EarlierBlockDepositSkipped ==
  \E c \in DepositCalls :
    /\ NewEvent(c) /\ HasRecordedHeight(c)
    /\ parseInt(c.transaction.blockHeight) < RecordedHeight(c)
    /\ c.transaction.blockHeight # "0"
    /\ AfterDeposit(c) = balances

\* ---------------------------------------------------------------------
\* Order status over time
\* ---------------------------------------------------------------------

Closed(o) == o.status \in {"FILLED", "CANCELLED"}

Forward(s, t) ==
  \/ s = t
  \/ s = "OPEN" /\ t \in {"PARTIAL", "FILLED", "CANCELLED"}
  \/ s = "PARTIAL" /\ t \in {"FILLED", "CANCELLED"}

\* C38: order status only moves forward, OPEN to PARTIAL to FILLED or
\* OPEN/PARTIAL to CANCELLED, and no step changes the status or the
\* filledQuantity of an order that is FILLED or CANCELLED, the final
\* status write of a matchOrders call racing a settlement included.
C38_StatusMovesForward ==
  [][\A i \in 1..Len(orders) :
       /\ i <= Len(orders')
       /\ Forward(orders[i].status, orders'[i].status)
       /\ Closed(orders[i]) =>
            /\ orders'[i].status = orders[i].status
            /\ orders'[i].filledQuantity = orders[i].filledQuantity]_vars

\* ---------------------------------------------------------------------
\* Crossed book
\* ---------------------------------------------------------------------

\* A BUY and a SELL of different users that matchOrders would pair.
Crossed(ords) ==
  \E i, j \in DOMAIN ords :
    /\ ords[i].side = "BUY" /\ ords[j].side = "SELL"
    /\ ords[i].marketId = ords[j].marketId
    /\ ords[i].tokenType = ords[j].tokenType
    /\ ords[i].userId # ords[j].userId
    /\ Active(ords[i]) /\ Active(ords[j])
    /\ Unfilled(ords[i]) > 0 /\ Unfilled(ords[j]) > 0
    /\ ords[i].price >= ords[j].price

\* C39: whenever no matchOrders call is in progress, no two OPEN or PARTIAL
\* orders of different users in one market and token type, a BUY and a SELL
\* with unfilled quantity, have the BUY price at or above the SELL price.
C39_BookNotCrossed ==
  cur = NoOrder => ~Crossed(orders)

\* After a trade, a BUY and a SELL of different users rest unfilled in one
\* market and token type, and no matchOrders call is running.
C39_Witness ==
  /\ cur = NoOrder
  /\ Len(trades) > 0
  /\ \E i, j \in DOMAIN orders :
       /\ orders[i].side = "BUY" /\ orders[j].side = "SELL"
       /\ orders[i].marketId = orders[j].marketId
       /\ orders[i].tokenType = orders[j].tokenType
       /\ orders[i].userId # orders[j].userId
       /\ Active(orders[i]) /\ Active(orders[j])
       /\ Unfilled(orders[i]) > 0 /\ Unfilled(orders[j]) > 0

\* ---------------------------------------------------------------------
\* Whose key signs an order
\* ---------------------------------------------------------------------

\* Key pairs: one per user and one of a party that is no user.
Keys == {"key-a", "key-b", "key-x"}
KeyOf(u) == IF u = "a" THEN "key-a" ELSE "key-b"

\* A body with its keys: suppliedKey is the userWallet of a solana body and
\* the userSessionPubKey (with its userSessionAddress) of a xion body, and
\* signedBy the key pair that made the signature over the order's message.
KeyedRequests ==
  [body : {a \in SignedRequests : a.missing = "none"},
   suppliedKey : Keys, signedBy : Keys]

\* nacl.sign.detached.verify and Secp256k1.verifySignature on the message
\* built from the body: true of the signature of the key they are given.
SignatureValid(signedBy, publicKey) == signedBy = publicKey

\* The body as the middleware sees it: the check is made against the key
\* the body supplies.
Verified(k) ==
  [k.body EXCEPT !.verifies = SignatureValid(k.signedBy, k.suppliedKey)]

RequiresVerification(chainId) == chainId \in {"solana", "xion-testnet-1"}

OrderAdmitted(k) == PostOrder(balances, orders, Verified(k)).error = ""

\* C40: on a chain that requires verification an order is admitted for user
\* U only if its signature was made by the key that belongs to U; a party
\* with another key pair that supplies its own key with userId = U gets no
\* order admitted.
C40_SignedByOwner ==
  Idle =>
    \A k \in KeyedRequests :
      (RequiresVerification(k.body.chainId) /\ OrderAdmitted(k)) =>
        k.signedBy = KeyOf(toLowerCase(k.body.order.userId))

\* What the middleware gives: an admitted order's signature was made by the
\* key its body supplied.
SignedBySuppliedKey ==
  Idle =>
    \A k \in KeyedRequests :
      (RequiresVerification(k.body.chainId) /\ OrderAdmitted(k)) =>
        k.signedBy = k.suppliedKey

\* An order for a is admitted, and its funds locked, on the signature of a
\* party that is no user and supplied its own key.
AdmittedOnForeignKey ==
  /\ Idle
  /\ \E k \in KeyedRequests :
       /\ k.body.chainId = "solana"
       /\ toLowerCase(k.body.order.userId) = "a" /\ k.body.order.side = "BUY"
       /\ k.signedBy = "key-x" /\ k.suppliedKey = "key-x"
       /\ LET res == PostOrder(balances, orders, Verified(k))
          IN /\ res.error = ""
             /\ res.balances["a"].availableUSD < balances["a"].availableUSD

====
